---- MODULE Spec2Model ----
(***************************************************************************)
(* Model of the windowing core of better_nilm:                             *)
(*   - get_good_sections      (better_nilm/nilmtk/metergroup_utils.py)     *)
(*   - _ensure_continuous_series, metergroup_to_array                      *)
(*                            (better_nilm/nilmtk/data_loader.py)          *)
(* and of the dataset builders around it:                                  *)
(*   - metergroup_from_file   (better_nilm/nilmtk/data_loader.py)          *)
(*   - ukdale_datastore_to_series, load_ukdale_series, Power,              *)
(*     _train_valid_test      (better_nilm/ukdale/ukdale_data.py)          *)
(*   - DataSet.__getitem__    (nilm_thresholding/data/loader.py)           *)
(*   - DataSet._list_files    (nilm_thresholding/data/loader.py)           *)
(*   - _datastore_to_dataloader (better_nilm/ukdale/ukdale_data.py)        *)
(*   - get_status_by_duration as called by papers/massidda_2020_seen.py    *)
(* Timestamps are instants counted in whole seconds.                       *)
(***************************************************************************)
EXTENDS Integers, Sequences, FiniteSets, TLC

VARIABLES
    \* ---- get_good_sections: arguments
    nmeters,        \* number of meters of the metergroup
    sections,       \* sections[m]: meter m's good sections, a sequence of <<start, end>>
    sample_period,
    window_size,
    step,
    max_windows,
    \* ---- get_good_sections: locals
    timestamps,     \* the list of (timestamp, kind) tuples
    pos,            \* index of the next tuple the for loop visits
    overlap,
    ts_start,
    dt,
    chunks,
    total_chunks,
    good_sections,  \* the list that is returned
    pc,
    \* ---- _ensure_continuous_series: arguments and locals
    ecs_index_type, \* type of df.index
    ecs_dates,      \* df.index.values, in seconds
    ecs_sample_period,
    ecs_series_len,
    ecs_series_num,
    ecs_expected_delta,
    ecs_idx,        \* idx of the for loop over the rows
    ecs_err,        \* the exception raised, if any
    ecs_pc,
    \* ---- metergroup_to_array: arguments and locals
    mta_request,    \* the appliances argument as the caller passed it
    mta_caller_list,\* the caller's list object behind that argument
    mta_appliances, \* the local name `appliances`
    mta_series_len,
    mta_max_series,
    mta_to_int,
    mta_raw,        \* the table df_from_sections delivered
    mta_df,         \* the local name `df`: a sequence of columns
    mta_ser,        \* the array that is returned
    mta_err,        \* the exception raised, if any
    mta_pc,
    \* ---- metergroup_from_file: arguments and locals
    mgf_labels,     \* the labels of the building's appliances, as elec.label() lists them
    mgf_appliances, \* the appliances argument
    mgf_target,     \* target_appliances
    mgf_group,      \* the labels of the meters of the returned metergroup
    mgf_err,        \* the exception raised, if any
    mgf_pc,
    \* ---- ukdale_datastore_to_series: arguments and locals
    uds_labels,     \* labels[i]: the label of meter i in labels.dat
    uds_label,      \* the label argument
    uds_homogenize, \* what homogenize_string returns for each string
    uds_canon,      \* the local name `label` after lines 114-115
    uds_i,          \* the meter the for loop visits next
    uds_s,          \* the local name `s`: the meter whose records were loaded
    uds_err,        \* the exception raised, if any
    uds_pc,
    \* ---- Power (ukdale_data.py): the object's fields
    pw_meter,       \* self.meter
    pw_appliance,   \* self.appliance
    pw_status,      \* self.status
    pw_length,
    pw_border,
    pw_train,
    pw_epochs,
    \* ---- numpy's global random generator: how many numbers were taken from it
    np_random,
    \* ---- Power.__getitem__: arguments and locals of each call in flight
    pw_index,
    pw_i,
    pw_x,
    pw_y,
    pw_s,
    pw_err,         \* the exception raised, if any
    pw_pc,
    \* ---- DataSet (nilm_thresholding/data/loader.py): the file and the fields
    nds_aggregate,  \* the file's column "aggregate"
    nds_load,       \* the file's appliance column
    nds_power_scale,
    nds_border,
    nds_length,
    nds_idx_start,
    nds_idx_end,
    nds_threshold,
    \* ---- DataSet.__getitem__: locals
    nds_x,
    nds_y,
    nds_s,
    nds_pc,
    \* ---- load_ukdale_series and _train_valid_test, for one building
    sp_appliance,   \* the appliance series of the house, before any split
    sp_train_size,  \* in tenths
    sp_valid_size,  \* in tenths
    sp_thr_data,    \* the samples get_thresholds was given
    sp_thr_calls,   \* how many times get_thresholds was called
    sp_status,      \* the status table: per row, the sample and the thresholds behind it
    sp_cut_train,   \* int(train_size * ds_len[i])
    sp_cut_valid,   \* int((train_size + valid_size) * ds_len[i])
    sp_train,       \* ds_train[i]
    sp_valid,       \* ds_valid[i]
    sp_test,        \* ds_test[i]
    sp_err,         \* the exception raised, if any
    sp_pc,
    \* ---- get_status_by_duration and its callers (papers/massidda_2020_seen.py)
    sd_power,       \* the appliance load, y
    sd_threshold,   \* in halves of the unit of the load
    sd_min_off,
    sd_min_on,
    sd_bin,         \* the status the last call returned
    sd_first,       \* the status the first call returned
    sd_calls,       \* how many calls were made
    \* ---- DataSet._list_files, for the three subsets of one configuration
    lf_buildings,   \* per listed building, the number of files in its folder
    lf_train_size,  \* in tenths
    lf_valid_size,  \* in tenths
    lf_shuffle,
    lf_shuffled,    \* lf_shuffled[n + 1]: the order random.shuffle leaves n files in after seed(random_seed)
    lf_int_train,   \* per listed building, int(len(files_of_building) * train_size)
    lf_int_valid,   \* per listed building, int(len(files_of_building) * validation_size)
    lf_subset,      \* self.subset of the object under construction
    lf_b,           \* position of the building loop
    lf_acc,         \* the local list files
    lf_files,       \* per subset, self.files of the object built for it
    lf_epochs,      \* per subset, self.epochs
    lf_built,       \* the subsets whose object was built
    lf_pc,
    \* ---- _datastore_to_dataloader
    dl_datasets,    \* the list of per-building datasets the caller hands over
    dl_buildings,   \* the indices asked for, as a list
    dl_batch_size,
    dl_shuffle,
    dl_ds,          \* the local ds
    dl_k,           \* position of the for loop
    dl_loader,      \* the loader returned
    dl_err,         \* the exception raised, if any
    dl_pc

sweepVars == <<nmeters, sections, sample_period, window_size, step, max_windows,
               timestamps, pos, overlap, ts_start, dt, chunks, total_chunks,
               good_sections, pc>>

ecsVars == <<ecs_index_type, ecs_dates, ecs_sample_period, ecs_series_len,
             ecs_series_num, ecs_expected_delta, ecs_idx, ecs_err, ecs_pc>>

mtaVars == <<mta_request, mta_caller_list, mta_appliances, mta_series_len,
             mta_max_series, mta_to_int, mta_raw, mta_df, mta_ser, mta_err, mta_pc>>

mgfVars == <<mgf_labels, mgf_appliances, mgf_target, mgf_group, mgf_err, mgf_pc>>

udsVars == <<uds_labels, uds_label, uds_homogenize, uds_canon, uds_i, uds_s,
             uds_err, uds_pc>>

powerVars == <<pw_meter, pw_appliance, pw_status, pw_length, pw_border, pw_train,
               pw_epochs, np_random, pw_index, pw_i, pw_x, pw_y, pw_s, pw_err, pw_pc>>

ndsVars == <<nds_aggregate, nds_load, nds_power_scale, nds_border, nds_length,
             nds_idx_start, nds_idx_end, nds_threshold, nds_x, nds_y, nds_s, nds_pc>>

splitVars == <<sp_appliance, sp_train_size, sp_valid_size, sp_thr_data, sp_thr_calls,
               sp_status, sp_cut_train, sp_cut_valid, sp_train, sp_valid, sp_test,
               sp_err, sp_pc>>

durationVars == <<sd_power, sd_threshold, sd_min_off, sd_min_on, sd_bin, sd_first,
                  sd_calls>>

filesVars == <<lf_buildings, lf_train_size, lf_valid_size, lf_shuffle, lf_shuffled,
               lf_int_train, lf_int_valid, lf_subset, lf_b, lf_acc, lf_files,
               lf_epochs, lf_built, lf_pc>>

loaderVars == <<dl_datasets, dl_buildings, dl_batch_size, dl_shuffle, dl_ds, dl_k,
                dl_loader, dl_err, dl_pc>>

\* The variables of the dataset builders.
datasetVars == <<mgfVars, udsVars, powerVars, ndsVars, splitVars, durationVars,
                 filesVars, loaderVars>>

\* What a step of one dataset builder leaves alone.
exceptMgf == <<sweepVars, ecsVars, mtaVars, udsVars, powerVars, ndsVars,
               splitVars, durationVars,
               filesVars, loaderVars>>

exceptUds == <<sweepVars, ecsVars, mtaVars, mgfVars, powerVars, ndsVars,
               splitVars, durationVars,
               filesVars, loaderVars>>

exceptPower == <<sweepVars, ecsVars, mtaVars, mgfVars, udsVars, ndsVars,
                 splitVars, durationVars,
                 filesVars, loaderVars>>

exceptSplit == <<sweepVars, ecsVars, mtaVars, mgfVars, udsVars, powerVars, ndsVars,
                 durationVars,
                 filesVars, loaderVars>>

exceptDuration == <<sweepVars, ecsVars, mtaVars, mgfVars, udsVars, powerVars, ndsVars,
                    splitVars,
                    filesVars, loaderVars>>

exceptFiles == <<sweepVars, ecsVars, mtaVars, mgfVars, udsVars, powerVars, ndsVars,
                 splitVars, durationVars, loaderVars>>

exceptLoader == <<sweepVars, ecsVars, mtaVars, mgfVars, udsVars, powerVars, ndsVars,
                  splitVars, durationVars, filesVars>>

exceptNds == <<sweepVars, ecsVars, mtaVars, mgfVars, udsVars, powerVars,
               splitVars, durationVars,
               filesVars, loaderVars>>

vars == <<sweepVars, ecsVars, mtaVars, datasetVars>>

\* Python's None, for the integer-valued arguments and locals that may hold it.
None == -1

-----------------------------------------------------------------------------
(* Bounds of the model *)

\* Section boundaries of the small configurations lie in 0..MaxTime seconds.
MaxTime == 6
\* At most this many good sections per meter.
MaxSections == 2
\* Sizes of the meter groups explored.
MeterCounts == {1, 2}

\* The default series length of the loader, used for the 600-sample scenario.
DefaultSeriesLen == 600

-----------------------------------------------------------------------------
(* get_good_sections *)

\* The order of Python strings "end" < "start" (compared by code point).
KindRank(kind) == IF kind = "end" THEN 0 ELSE 1

\* Tuple comparison (timestamp, kind) < (timestamp, kind), as sorted() uses it.
StampLess(a, b) ==
    \/ a[1] < b[1]
    \/ a[1] = b[1] /\ KindRank(a[2]) < KindRank(b[2])

\* section.to_dict().items() turned into [(v, k) for k, v in ...].
SectionStamps(section) == << <<section[1], "start">>, <<section[2], "end">> >>

\* Variant of EnoughSize: a strict comparison.
EnoughSize_Strict(section, sp, ws) == section[2] - section[1] > sp * ws

\* delta >= sample_period * window_size: the section can hold one window.
EnoughSize(section, sp, ws) == section[2] - section[1] >= sp * ws

RECURSIVE MeterStamps(_, _, _)
MeterStamps(secs, sp, ws) ==
    IF secs = << >> THEN << >>
    ELSE (IF EnoughSize(Head(secs), sp, ws) THEN SectionStamps(Head(secs)) ELSE << >>)
         \o MeterStamps(Tail(secs), sp, ws)

RECURSIVE CollectStamps(_, _, _, _)
CollectStamps(secsOf, m, sp, ws) ==
    IF m > Len(secsOf) THEN << >>
    ELSE MeterStamps(secsOf[m], sp, ws) \o CollectStamps(secsOf, m + 1, sp, ws)

RECURSIVE InsertStamp(_, _)
InsertStamp(x, sorted) ==
    IF sorted = << >> THEN <<x>>
    ELSE IF StampLess(x, Head(sorted)) THEN <<x>> \o sorted
    ELSE <<Head(sorted)>> \o InsertStamp(x, Tail(sorted))

RECURSIVE SortedStamps(_)
SortedStamps(list) ==
    IF list = << >> THEN << >>
    ELSE InsertStamp(Head(list), SortedStamps(Tail(list)))

\* step = window_size when step is None.
DefaultStep(stepArg, ws) == IF stepArg = None THEN ws ELSE stepArg

\* pd.Timestamp(stamp[0]).tz_convert(UTC): the same instant, expressed in UTC.
ToUTC(t) == t

\* dt = floor(timedelta / sample_period)
SampleCount(tsStart, tsEnd, sp) == (tsEnd - tsStart) \div sp

\* Variant of Chunks: the "+ 1" is missing.
Chunks_NoPlusOne(d, ws, st) == (d - ws) \div st

\* chunks = floor((dt - window_size) / step) + 1
Chunks(d, ws, st) == ((d - ws) \div st) + 1

\* Variant of TrimmedEnd: windows taken as laid end to end (step = window_size).
TrimmedEnd_NoOverlap(tsStart, ch, ws, st, sp) == tsStart + (ch * st) * sp

\* ts_end = ts_start + ((chunks - 1) * step + window_size) * sample_period
TrimmedEnd(tsStart, ch, ws, st, sp) == tsStart + ((ch - 1) * st + ws) * sp

\* Variant of StartAfterClose: ts_start is never reset.
StartAfterClose_Keep(tsStart, ch) == tsStart

\* ts_start after an end stamp closed a section: reset only when it was kept.
StartAfterClose(tsStart, ch) == IF ch > 0 THEN None ELSE tsStart

\* Variant of ReachedCap: a strict comparison.
ReachedCap_Strict(total, maxw) == maxw # None /\ total > maxw

\* (max_windows is not None) and (total_chunks >= max_windows)
ReachedCap(total, maxw) == maxw # None /\ total >= maxw

\* len(metergroup.instance())
MeterCount == nmeters

\* Lines 36-52: default the step, collect the stamps of the sections with
\* enough size, sort them.
Collect ==
    /\ pc = "collect"
    /\ step' = DefaultStep(step, window_size)
    /\ timestamps' = SortedStamps(CollectStamps(sections, 1, sample_period, window_size))
    /\ pc' = "loop"
    /\ UNCHANGED <<ecsVars, mtaVars, datasetVars>>
    /\ UNCHANGED <<nmeters, sections, sample_period, window_size, max_windows,
                   pos, overlap, ts_start, dt, chunks, total_chunks, good_sections>>

\* What follows the body of one loop iteration: break, or go to the next stamp.
AfterStamp(total) ==
    /\ pos' = pos + 1
    /\ pc' = IF ReachedCap(total, max_windows) THEN "done" ELSE "loop"

\* One iteration of the for loop on a "start" stamp.
StampStart ==
    /\ pc = "loop"
    /\ pos <= Len(timestamps)
    /\ timestamps[pos][2] = "start"
    /\ overlap' = overlap + 1
    /\ ts_start' = IF overlap + 1 = MeterCount THEN ToUTC(timestamps[pos][1])
                   ELSE ts_start
    /\ AfterStamp(total_chunks)
    /\ UNCHANGED <<ecsVars, mtaVars, datasetVars>>
    /\ UNCHANGED <<nmeters, sections, sample_period, window_size, step, max_windows,
                   timestamps, dt, chunks, total_chunks, good_sections>>

\* One iteration of the for loop on an "end" stamp.
StampEnd ==
    /\ pc = "loop"
    /\ pos <= Len(timestamps)
    /\ timestamps[pos][2] = "end"
    /\ overlap' = overlap - 1
    /\ LET ts_end == ToUTC(timestamps[pos][1])
           d      == SampleCount(ts_start, ts_end, sample_period)
           ch     == Chunks(d, window_size, step)
           closed == IF ts_start # None THEN StartAfterClose(ts_start, ch) ELSE ts_start
       IN  /\ IF ts_start # None
              THEN /\ dt' = d
                   /\ chunks' = ch
                   /\ IF ch > 0
                      THEN /\ total_chunks' = total_chunks + ch
                           /\ good_sections' = Append(good_sections,
                                  [start |-> ts_start,
                                   end   |-> TrimmedEnd(ts_start, ch, window_size,
                                                        step, sample_period)])
                      ELSE UNCHANGED <<total_chunks, good_sections>>
              ELSE UNCHANGED <<dt, chunks, total_chunks, good_sections>>
           /\ ts_start' = IF overlap - 1 = MeterCount THEN ts_end ELSE closed
    /\ AfterStamp(total_chunks')
    /\ UNCHANGED <<ecsVars, mtaVars, datasetVars>>
    /\ UNCHANGED <<nmeters, sections, sample_period, window_size, step, max_windows,
                   timestamps>>

\* The for loop ran out of stamps: return good_sections.
Return ==
    /\ pc = "loop"
    /\ pos > Len(timestamps)
    /\ pc' = "done"
    /\ UNCHANGED <<ecsVars, mtaVars, datasetVars>>
    /\ UNCHANGED <<nmeters, sections, sample_period, window_size, step, max_windows,
                   timestamps, pos, overlap, ts_start, dt, chunks, total_chunks,
                   good_sections>>

-----------------------------------------------------------------------------
(* The calls explored: arguments of get_good_sections *)

\* The good sections a meter can have on a time grid: chronological and
\* separated by gaps (the store's sections of one meter are disjoint).
SectionLists(times) ==
    LET Intervals == {<<s, e>> : s \in times, e \in times} \ {iv \in times \X times : iv[1] >= iv[2]}
    IN  {q \in UNION {[1..n -> Intervals] : n \in 0..MaxSections} :
            \A k \in 1..(Len(q) - 1) : q[k][2] < q[k + 1][1]}

SmallTimes == 0..MaxTime

SmallConfigs ==
    [sp : {1, 2}, ws : {2, 3}, step : {None, 1}, maxw : {None, 0, 1, 2}]

\* window_length = 600, step = 600 (the default), one second per sample.
BigTimes == {0, 1, DefaultSeriesLen, 2 * DefaultSeriesLen - 1, 2 * DefaultSeriesLen,
             2 * DefaultSeriesLen + 1}

BigConfigs ==
    [sp : {1}, ws : {DefaultSeriesLen}, step : {None}, maxw : {None}]

InitSweepWith(cfgs, times) ==
    /\ nmeters \in MeterCounts
    /\ sections \in [1..nmeters -> SectionLists(times)]
    /\ \E cfg \in cfgs :
          /\ sample_period = cfg.sp
          /\ window_size = cfg.ws
          /\ step = cfg.step
          /\ max_windows = cfg.maxw
    /\ timestamps = << >>
    /\ pos = 1
    /\ overlap = 0
    /\ ts_start = None
    /\ dt = None
    /\ chunks = None
    /\ total_chunks = 0
    /\ good_sections = << >>
    /\ pc = "collect"

\* No call of _ensure_continuous_series is under way.
EcsIdle ==
    /\ ecs_index_type = "DatetimeIndex"
    /\ ecs_dates = << >>
    /\ ecs_sample_period = 1
    /\ ecs_series_len = 1
    /\ ecs_series_num = None
    /\ ecs_expected_delta = None
    /\ ecs_idx = None
    /\ ecs_err = "none"
    /\ ecs_pc = "idle"

\* An appliances argument: None, or a list of names.
NoAppliances == [given |-> FALSE, names |-> << >>]

\* A table without rows and columns.
EmptyTable == [rows |-> 0, cols |-> << >>]

\* No array was built.
NoArray == [shape |-> << >>, cols |-> << >>]

\* No call of metergroup_to_array is under way.
MtaIdle ==
    /\ mta_request = NoAppliances
    /\ mta_caller_list = << >>
    /\ mta_appliances = NoAppliances
    /\ mta_series_len = 1
    /\ mta_max_series = None
    /\ mta_to_int = TRUE
    /\ mta_raw = EmptyTable
    /\ mta_df = EmptyTable
    /\ mta_ser = NoArray
    /\ mta_err = "none"
    /\ mta_pc = "idle"

\* metergroup_from_file is not running.
MgfIdle ==
    /\ mgf_labels = {}
    /\ mgf_appliances = NoAppliances
    /\ mgf_target = <<>>
    /\ mgf_group = {}
    /\ mgf_err = "none"
    /\ mgf_pc = "idle"

\* ukdale_datastore_to_series is not running.
UdsIdle ==
    /\ uds_labels = <<>>
    /\ uds_label = "none"
    /\ uds_homogenize = <<>>
    /\ uds_canon = "none"
    /\ uds_i = None
    /\ uds_s = None
    /\ uds_err = "none"
    /\ uds_pc = "idle"

\* The calls of Power.__getitem__ that can be in flight at once.
Readers == {1, 2}

\* No Power object exists.
PowerIdle ==
    /\ pw_meter = <<>>
    /\ pw_appliance = <<>>
    /\ pw_status = <<>>
    /\ pw_length = None
    /\ pw_border = None
    /\ pw_train = FALSE
    /\ pw_epochs = None
    /\ np_random = 0
    /\ pw_index = [c \in Readers |-> None]
    /\ pw_i = [c \in Readers |-> None]
    /\ pw_x = [c \in Readers |-> <<>>]
    /\ pw_y = [c \in Readers |-> <<>>]
    /\ pw_s = [c \in Readers |-> <<>>]
    /\ pw_err = [c \in Readers |-> "none"]
    /\ pw_pc = [c \in Readers |-> "idle"]

\* No DataSet object exists.
NdsIdle ==
    /\ nds_aggregate = <<>>
    /\ nds_load = <<>>
    /\ nds_power_scale = None
    /\ nds_border = None
    /\ nds_length = None
    /\ nds_idx_start = None
    /\ nds_idx_end = None
    /\ nds_threshold = None
    /\ nds_x = <<>>
    /\ nds_y = <<>>
    /\ nds_s = <<>>
    /\ nds_pc = "idle"

\* A dataset that was not built.
NoDataset == [train |-> FALSE, appliance |-> <<>>, status |-> <<>>]

\* No house is loaded.
SplitIdle ==
    /\ sp_appliance = <<>>
    /\ sp_train_size = None
    /\ sp_valid_size = None
    /\ sp_thr_data = <<>>
    /\ sp_thr_calls = 0
    /\ sp_status = <<>>
    /\ sp_cut_train = None
    /\ sp_cut_valid = None
    /\ sp_train = NoDataset
    /\ sp_valid = NoDataset
    /\ sp_test = NoDataset
    /\ sp_err = "none"
    /\ sp_pc = "idle"

\* No status is asked for.
DurationIdle ==
    /\ sd_power = <<>>
    /\ sd_threshold = None
    /\ sd_min_off = None
    /\ sd_min_on = None
    /\ sd_bin = <<>>
    /\ sd_first = <<>>
    /\ sd_calls = 0

\* The names of the subsets of a DataSet.
Subsets == {"train", "validation", "test"}

\* No file is listed.
FilesIdle ==
    /\ lf_buildings = <<>>
    /\ lf_train_size = None
    /\ lf_valid_size = None
    /\ lf_shuffle = FALSE
    /\ lf_shuffled = <<>>
    /\ lf_int_train = <<>>
    /\ lf_int_valid = <<>>
    /\ lf_subset = "none"
    /\ lf_b = None
    /\ lf_acc = <<>>
    /\ lf_files = [s \in Subsets |-> <<>>]
    /\ lf_epochs = [s \in Subsets |-> 0]
    /\ lf_built = {}
    /\ lf_pc = "idle"

\* No loader is asked for.
LoaderIdle ==
    /\ dl_datasets = <<>>
    /\ dl_buildings = <<>>
    /\ dl_batch_size = None
    /\ dl_shuffle = FALSE
    /\ dl_ds = <<>>
    /\ dl_k = None
    /\ dl_loader = <<>>
    /\ dl_err = "none"
    /\ dl_pc = "idle"

\* The dataset builders are not running, except the one named.
DatasetIdleBut(running) ==
    /\ IF running = "_list_files" THEN TRUE ELSE FilesIdle
    /\ IF running = "_datastore_to_dataloader" THEN TRUE ELSE LoaderIdle
    /\ IF running = "_train_valid_test" THEN TRUE ELSE SplitIdle
    /\ IF running = "get_status_by_duration" THEN TRUE ELSE DurationIdle
    /\ IF running = "metergroup_from_file" THEN TRUE ELSE MgfIdle
    /\ IF running = "ukdale_datastore_to_series" THEN TRUE ELSE UdsIdle
    /\ IF running = "Power" THEN TRUE ELSE PowerIdle
    /\ IF running = "DataSet" THEN TRUE ELSE NdsIdle

Init ==
    /\ \/ InitSweepWith(SmallConfigs, SmallTimes)
       \/ InitSweepWith(BigConfigs, BigTimes)
    /\ EcsIdle
    /\ MtaIdle
    /\ DatasetIdleBut("none")

Next ==
    \/ Collect
    \/ StampStart
    \/ StampEnd
    \/ Return

Spec == Init /\ [][Next]_vars

-----------------------------------------------------------------------------
(* Properties of get_good_sections *)

\* The sections of meter m that are long enough to hold one window.
Retained(m) ==
    {iv \in {sections[m][k] : k \in 1..Len(sections[m])} :
        iv[2] - iv[1] >= sample_period * window_size}

Boundaries ==
    UNION {UNION {{sections[m][k][1], sections[m][k][2]} : k \in 1..Len(sections[m])} :
           m \in 1..nmeters}

\* Every meter has a retained section open during the whole of [a, b].
AllOpen(a, b) ==
    /\ a < b
    /\ \A m \in 1..nmeters : \E iv \in Retained(m) : iv[1] <= a /\ b <= iv[2]

\* The maximal intervals during which every meter is recording.
MaxCommon ==
    {iv \in Boundaries \X Boundaries :
        /\ AllOpen(iv[1], iv[2])
        /\ \A other \in Boundaries \X Boundaries :
              (AllOpen(other[1], other[2]) /\ other[1] <= iv[1] /\ iv[2] <= other[2])
                  => other = iv}

\* The number of windows of window_size samples, step samples apart, that fit
\* into an interval of `seconds` seconds.
WindowsIn(seconds) ==
    LET n == seconds \div sample_period
    IN  IF n < window_size THEN 0
        ELSE Cardinality({w \in 0..(n - window_size) : w % step = 0})

ExpectedSections ==
    {[start |-> iv[1],
      end   |-> iv[1] + ((WindowsIn(iv[2] - iv[1]) - 1) * step + window_size) * sample_period] :
        iv \in {c \in MaxCommon : WindowsIn(c[2] - c[1]) >= 1}}

Returned == {good_sections[k] : k \in 1..Len(good_sections)}

\* The window count a returned section stands for, read off its duration.
WindowsOf(sec) == (((sec.end - sec.start) \div sample_period) - window_size) \div step + 1

RECURSIVE SumWindows(_)
SumWindows(list) ==
    IF list = << >> THEN 0 ELSE WindowsOf(Head(list)) + SumWindows(Tail(list))

\* C1: without a cap, the returned intervals are exactly the maximal intervals
\* during which every meter has a retained good section open and which hold
\* at least one window, each starting where the common interval starts and
\* trimmed at its end.
C1_ExactlyCommonIntervals ==
    (pc = "done" /\ max_windows = None) =>
        /\ Returned = ExpectedSections
        /\ Len(good_sections) = Cardinality(ExpectedSections)

\* C2: every returned interval lasts ((window_count - 1) * step + window_size)
\* * sample_period seconds for a window_count >= 1, the counts add up to the
\* running total, and with step = window_size the duration is a multiple of
\* window_size * sample_period.
C2_DurationIsWindowMultiple ==
    /\ \A k \in 1..Len(good_sections) :
          LET dur == good_sections[k].end - good_sections[k].start
              n   == dur \div sample_period
          IN  /\ dur % sample_period = 0
              /\ n >= window_size
              /\ (n - window_size) % step = 0
              /\ (step = window_size => dur % (window_size * sample_period) = 0)
    /\ (good_sections # << >> => SumWindows(good_sections) = total_chunks)

\* C2 witness: a kept section of two overlapping windows, trimmed short of
\* the end stamp that closed it.
C2_Witness ==
    /\ pc = "done"
    /\ Len(good_sections) = 1
    /\ step < window_size
    /\ chunks = 2
    /\ good_sections[1].end < timestamps[pos - 1][1]

\* The loop is about to close a section on an end stamp.
ClosesSection ==
    /\ pc = "loop"
    /\ pos <= Len(timestamps)
    /\ timestamps[pos][2] = "end"
    /\ ts_start # None

\* C3: a closed interval of dt = floor(seconds / sample_period) samples gets
\* window_count = floor((dt - window_size) / step) + 1 and is discarded when
\* that is <= 0; window_size = step = 600 gives 2 windows for 1200 samples
\* and 1 window for 1199.
C3_WindowCount ==
    [][ClosesSection =>
        LET seconds == timestamps[pos][1] - ts_start
        IN  /\ dt' * sample_period <= seconds
            /\ seconds < (dt' + 1) * sample_period
            /\ (chunks' - 1) * step + window_size <= dt'
            /\ dt' < chunks' * step + window_size
            /\ (chunks' <= 0 => good_sections' = good_sections)
            /\ (chunks' > 0 => Len(good_sections') = Len(good_sections) + 1)
            /\ ((window_size = 600 /\ step = 600 /\ dt' = 1200) => chunks' = 2)
            /\ ((window_size = 600 /\ step = 600 /\ dt' = 1199) => chunks' = 1)
    ]_vars

\* C3 witness: a section of exactly 1200 samples closed with two windows of 600.
C3_Witness ==
    /\ window_size = 600
    /\ step = 600
    /\ dt = 1200
    /\ chunks = 2
    /\ Len(good_sections) = 1

\* C4: with max_windows = k, the window counts of the returned sections sum
\* to at most k.
C4_AtMostMaxWindows ==
    (pc = "done" /\ max_windows # None) => SumWindows(good_sections) <= max_windows

\* C5: with max_windows = 0 nothing is ever returned.
C5_ZeroCapEmpty ==
    max_windows = 0 => (good_sections = << >> /\ total_chunks = 0 /\ pos <= 2)

\* C5 witness: the call with a zero cap has returned, for sections that hold
\* windows.
C5_Witness ==
    /\ max_windows = 0
    /\ pc = "done"
    /\ ExpectedSections # {}

\* C6: each returned interval ends no later than the next one starts.
C6_Chronological ==
    \A k \in 1..(Len(good_sections) - 1) :
        good_sections[k].end <= good_sections[k + 1].start

\* C6 witness: two intervals were returned for a group of two meters.
C6_Witness ==
    /\ pc = "done"
    /\ nmeters = 2
    /\ Len(good_sections) = 2

LongEnough(iv) == iv[2] - iv[1] >= sample_period * window_size

\* C7: for one meter and no cap, one interval is returned per section of at
\* least sample_period * window_size seconds, starting at the section's
\* start and ending inside it; shorter sections give nothing.
C7_SingleMeter ==
    (pc = "done" /\ nmeters = 1 /\ max_windows = None) =>
        LET kept == SelectSeq(sections[1], LongEnough)
        IN  /\ Len(good_sections) = Len(kept)
            /\ \A k \in 1..Len(kept) :
                  /\ good_sections[k].start = kept[k][1]
                  /\ good_sections[k].start < good_sections[k].end
                  /\ good_sections[k].end <= kept[k][2]

\* C7 witness: one meter with a section of exactly one window and a shorter
\* section that is left out.
C7_Witness ==
    /\ pc = "done"
    /\ nmeters = 1
    /\ max_windows = None
    /\ Len(sections[1]) = 2
    /\ Len(good_sections) = 1
    /\ \E k \in 1..2 :
          sections[1][k][2] - sections[1][k][1] = sample_period * window_size

-----------------------------------------------------------------------------
(* _ensure_continuous_series *)

\* Largest tick (in sample periods) of a resampled index.
MaxTick == 6
\* Largest series_len explored.
MaxSeriesLen == 3

\* Variant of ExpectedDelta: the number of samples taken for the number of steps.
ExpectedDelta_OffByOne(sp, seriesLen) == sp * seriesLen

\* expected_delta = sample_period * (series_len - 1)
ExpectedDelta(sp, seriesLen) == sp * (seriesLen - 1)

\* dates[idx, -1] - dates[idx, 0] of the table reshaped to rows of seriesLen.
RowDelta(dates, idx, seriesLen) ==
    dates[idx * seriesLen + seriesLen] - dates[idx * seriesLen + 1]

\* Lines 89-97: the index type check, the reshape and the expected delta.
EcsEnter ==
    /\ ecs_pc = "enter"
    /\ IF ecs_index_type # "DatetimeIndex"
       THEN /\ ecs_err' = "TypeError"
            /\ ecs_pc' = "raised"
            /\ UNCHANGED <<ecs_series_num, ecs_expected_delta, ecs_idx>>
       ELSE LET num == Len(ecs_dates) \div ecs_series_len
            IN  /\ ecs_series_num' = num
                /\ IF num * ecs_series_len # Len(ecs_dates)
                   THEN \* np.reshape cannot shape the array
                        /\ ecs_err' = "ReshapeError"
                        /\ ecs_pc' = "raised"
                        /\ UNCHANGED <<ecs_expected_delta, ecs_idx>>
                   ELSE /\ ecs_expected_delta' =
                               ExpectedDelta(ecs_sample_period, ecs_series_len)
                        /\ ecs_idx' = 0
                        /\ ecs_err' = "none"
                        /\ ecs_pc' = "rows"
    /\ UNCHANGED <<ecs_index_type, ecs_dates, ecs_sample_period, ecs_series_len>>
    /\ UNCHANGED <<sweepVars, mtaVars, datasetVars>>

\* Lines 101-105: one iteration of the loop over the rows' deltas.
EcsRow ==
    /\ ecs_pc = "rows"
    /\ ecs_idx < ecs_series_num
    /\ IF RowDelta(ecs_dates, ecs_idx, ecs_series_len) # ecs_expected_delta
       THEN /\ ecs_err' = "ValueError"
            /\ ecs_pc' = "raised"
            /\ UNCHANGED ecs_idx
       ELSE /\ ecs_idx' = ecs_idx + 1
            /\ UNCHANGED <<ecs_err, ecs_pc>>
    /\ UNCHANGED <<ecs_index_type, ecs_dates, ecs_sample_period, ecs_series_len,
                   ecs_series_num, ecs_expected_delta>>
    /\ UNCHANGED <<sweepVars, mtaVars, datasetVars>>

\* The loop ran over every row: the function returns.
EcsReturn ==
    /\ ecs_pc = "rows"
    /\ ecs_idx = ecs_series_num
    /\ ecs_pc' = "returned"
    /\ UNCHANGED <<ecs_index_type, ecs_dates, ecs_sample_period, ecs_series_len,
                   ecs_series_num, ecs_expected_delta, ecs_idx, ecs_err>>
    /\ UNCHANGED <<sweepVars, mtaVars, datasetVars>>

RECURSIVE Ascending(_, _)
\* The elements of a set of ticks in increasing order, as timestamps.
Ascending(ticks, sp) ==
    IF ticks = {} THEN << >>
    ELSE LET least == CHOOSE t \in ticks : \A u \in ticks : t <= u
         IN  <<least * sp>> \o Ascending(ticks \ {least}, sp)

\* The index of a table resampled to the sample period: increasing timestamps
\* on the sample-period grid, with samples absent where a gap was left.
ResampledIndexes(sp) == {Ascending(ticks, sp) : ticks \in SUBSET (0..MaxTick)}

\* No call of get_good_sections is under way.
SweepIdle ==
    /\ nmeters = 1
    /\ sections = << << >> >>
    /\ sample_period = 1
    /\ window_size = 1
    /\ step = None
    /\ max_windows = None
    /\ timestamps = << >>
    /\ pos = 1
    /\ overlap = 0
    /\ ts_start = None
    /\ dt = None
    /\ chunks = None
    /\ total_chunks = 0
    /\ good_sections = << >>
    /\ pc = "idle"

InitSeries ==
    /\ SweepIdle
    /\ MtaIdle
    /\ DatasetIdleBut("none")
    /\ ecs_index_type \in {"DatetimeIndex", "RangeIndex"}
    /\ ecs_sample_period \in {1, 2}
    /\ ecs_series_len \in 1..MaxSeriesLen
    /\ ecs_dates \in ResampledIndexes(ecs_sample_period)
    /\ ecs_series_num = None
    /\ ecs_expected_delta = None
    /\ ecs_idx = None
    /\ ecs_err = "none"
    /\ ecs_pc = "enter"

NextSeries ==
    \/ EcsEnter
    \/ EcsRow
    \/ EcsReturn

SpecSeries == InitSeries /\ [][NextSeries]_vars

\* The j-th timestamp of row r of the table (both counted from 1).
RowStamp(r, j) == ecs_dates[(r - 1) * ecs_series_len + j]

\* Row r spans a recording gap.
GapRow(r) ==
    \E j \in 1..(ecs_series_len - 1) :
        RowStamp(r, j + 1) - RowStamp(r, j) > ecs_sample_period

\* Row r is made of samples exactly one sample period apart.
ContiguousRow(r) ==
    \A j \in 1..(ecs_series_len - 1) :
        RowStamp(r, j + 1) - RowStamp(r, j) = ecs_sample_period

\* C8: for a date-indexed table of whole rows, a row that spans a gap makes
\* _ensure_continuous_series raise, rows of samples exactly sample_period
\* apart make it return, and it raises exactly when some row's last-minus-
\* first timestamp differs from sample_period * (series_len - 1), for the
\* first such row.
C8_ContinuityCheck ==
    (/\ ecs_pc \in {"returned", "raised"}
     /\ ecs_index_type = "DatetimeIndex"
     /\ Len(ecs_dates) % ecs_series_len = 0) =>
        LET rows == 1..(Len(ecs_dates) \div ecs_series_len)
            Bad(r) == RowStamp(r, ecs_series_len) - RowStamp(r, 1)
                          # ecs_sample_period * (ecs_series_len - 1)
        IN  /\ (\E r \in rows : GapRow(r)) => (ecs_pc = "raised" /\ ecs_err = "ValueError")
            /\ (\A r \in rows : ContiguousRow(r)) => (ecs_pc = "returned" /\ ecs_err = "none")
            /\ (ecs_pc = "raised") <=> (\E r \in rows : Bad(r))
            /\ (ecs_pc = "raised") =>
                  (Bad(ecs_idx + 1) /\ \A r \in 1..ecs_idx : ~Bad(r))

\* C8 witness: the first row of three samples is contiguous, the second
\* spans a gap, and the call raised on the second.
C8_Witness ==
    /\ ecs_pc = "raised"
    /\ ecs_err = "ValueError"
    /\ ecs_series_len = 3
    /\ ecs_idx = 1
    /\ ContiguousRow(1)
    /\ GapRow(2)

-----------------------------------------------------------------------------
(* metergroup_to_array *)

\* At most this many raw channels in the table df_from_sections delivers.
MaxRawColumns == 3
\* At most this many names in the appliances argument.
MaxRequested == 2

\* The code points of the characters of a column name.
CodePoints(name) ==
    CASE name = "_main"     -> <<95, 109, 97, 105, 110>>
      [] name = "fridge"    -> <<102, 114, 105, 100, 103, 101>>
      [] name = "kettle"    -> <<107, 101, 116, 116, 108, 101>>
      [] name = "tv"        -> <<116, 118>>
      [] name = "Fridge"    -> <<70, 114, 105, 100, 103, 101>>
      [] name = "3dprinter" -> <<51, 100, 112, 114, 105, 110, 116, 101, 114>>

RECURSIVE CodesLess(_, _)
\* Python's str < str: the first differing code point decides, a proper
\* prefix is smaller.
CodesLess(a, b) ==
    IF a = << >> THEN b # << >>
    ELSE IF b = << >> THEN FALSE
    ELSE IF Head(a) # Head(b) THEN Head(a) < Head(b)
    ELSE CodesLess(Tail(a), Tail(b))

NameLess(a, b) == CodesLess(CodePoints(a), CodePoints(b))

RECURSIVE SortedNames(_)
\* sorted(names) for a set of distinct names.
SortedNames(names) ==
    IF names = {} THEN << >>
    ELSE LET least == CHOOSE n \in names : \A o \in names \ {n} : NameLess(n, o)
         IN  <<least>> \o SortedNames(names \ {least})

SeqToSet(q) == {q[i] : i \in 1..Len(q)}

\* df.columns, as a set.
ColumnNames(cols) == {cols[i].name : i \in 1..Len(cols)}

RECURSIVE SumAt(_, _, _)
\* The sum at row i of the columns called name.
SumAt(cols, name, i) ==
    IF cols = << >> THEN 0
    ELSE (IF Head(cols).name = name THEN Head(cols).vals[i] ELSE 0)
         + SumAt(Tail(cols), name, i)

\* df.astype(int) on non-negative loads kept in half watts: the fraction is cut.
ToInt(v) == (v \div 2) * 2

\* df.groupby(df.columns, axis=1).sum(), then astype(int) when to_int: one
\* column per name, in the order of the group keys.
GroupSum(table, toInt) ==
    LET order == SortedNames(ColumnNames(table.cols))
    IN  [rows |-> table.rows,
         cols |-> [k \in 1..Len(order) |->
                     [name |-> order[k],
                      vals |-> [i \in 1..table.rows |->
                                  IF toInt THEN ToInt(SumAt(table.cols, order[k], i))
                                  ELSE SumAt(table.cols, order[k], i)]]]]

\* appliances += ["_main"] when "_main" is not in the list.
WithMain(names) == IF "_main" \in SeqToSet(names) THEN names ELSE names \o <<"_main">>

RECURSIVE DropColumns(_, _)
\* df.drop([app for app in df.columns if app not in appliances], axis=1)
DropColumns(cols, wanted) ==
    IF cols = << >> THEN << >>
    ELSE (IF Head(cols).name \in wanted THEN <<Head(cols)>> ELSE << >>)
         \o DropColumns(Tail(cols), wanted)

RECURSIVE AddMissing(_, _, _)
\* for app in appliances: if app not in df.columns: df[app] = 0
AddMissing(cols, names, rows) ==
    IF names = << >> THEN cols
    ELSE AddMissing(
            IF Head(names) \in ColumnNames(cols) THEN cols
            ELSE Append(cols, [name |-> Head(names), vals |-> [i \in 1..rows |-> 0]]),
            Tail(names), rows)

\* df.reindex(sorted(df.columns), axis=1)
SortColumns(cols) ==
    LET order == SortedNames(ColumnNames(cols))
    IN  [k \in 1..Len(order) |->
            CHOOSE c \in SeqToSet(cols) : c.name = order[k]]

\* The parameters of get_good_sections (metergroup_utils.py, lines 8-9).
GoodSectionsParams == {"metergroup", "sample_period", "window_size", "max_windows", "step"}

\* The keyword arguments of the call at data_loader.py, lines 149-150.
CallKeywords == {"max_series"}

\* Lines 149-150: the call get_good_sections(metergroup, sample_period,
\* series_len, max_series=max_series). A keyword that names no parameter
\* makes the call raise TypeError before the callee runs.
MtaCallGoodSections ==
    /\ mta_pc = "call"
    /\ IF CallKeywords \subseteq GoodSectionsParams
       THEN /\ mta_pc' = "sections"
            /\ UNCHANGED mta_err
       ELSE /\ mta_pc' = "raised"
            /\ mta_err' = "TypeError"
    /\ UNCHANGED <<mta_request, mta_caller_list, mta_appliances, mta_series_len,
                   mta_max_series, mta_to_int, mta_raw, mta_df, mta_ser>>
    /\ UNCHANGED <<sweepVars, ecsVars, datasetVars>>

\* Lines 157-162: sum the channels of the same name, change to integer.
MtaGroupSum ==
    /\ mta_pc = "groupsum"
    /\ mta_df' = GroupSum(mta_df, mta_to_int)
    /\ mta_pc' = "select"
    /\ UNCHANGED <<mta_request, mta_caller_list, mta_appliances, mta_series_len,
                   mta_max_series, mta_to_int, mta_raw, mta_ser, mta_err>>
    /\ UNCHANGED <<sweepVars, ecsVars, datasetVars>>

\* Lines 164-181: the main meter must be there; drop the appliances that
\* were not asked for; add the ones asked for that are missing, as zeros.
MtaSelect ==
    /\ mta_pc = "select"
    /\ IF "_main" \notin ColumnNames(mta_df.cols)
       THEN /\ mta_err' = "ValueError"
            /\ mta_pc' = "raised"
            /\ UNCHANGED <<mta_caller_list, mta_appliances, mta_df>>
       ELSE LET names == IF mta_appliances.given THEN WithMain(mta_appliances.names)
                         ELSE [k \in 1..Len(mta_df.cols) |-> mta_df.cols[k].name]
                kept  == IF mta_appliances.given
                         THEN DropColumns(mta_df.cols, SeqToSet(names))
                         ELSE mta_df.cols
            IN  /\ mta_appliances' = [given |-> TRUE, names |-> names]
                /\ mta_caller_list' = IF mta_appliances.given THEN names
                                      ELSE mta_caller_list
                /\ mta_df' = [rows |-> mta_df.rows,
                              cols |-> AddMissing(kept, names, mta_df.rows)]
                /\ mta_pc' = "reshape"
                /\ UNCHANGED mta_err
    /\ UNCHANGED <<mta_request, mta_series_len, mta_max_series, mta_to_int,
                   mta_raw, mta_ser>>
    /\ UNCHANGED <<sweepVars, ecsVars, datasetVars>>

\* Lines 183-199: sort the columns by name, reshape to (series_num,
\* series_len, len(appliances)), compare the first series with the table,
\* return.
MtaReshape ==
    /\ mta_pc = "reshape"
    /\ LET sorted     == SortColumns(mta_df.cols)
           series_num == mta_df.rows \div mta_series_len
           meters     == Len(mta_appliances.names)
       IN  /\ mta_df' = [rows |-> mta_df.rows, cols |-> sorted]
           /\ IF mta_df.rows * Len(sorted) # series_num * mta_series_len * meters
              THEN \* np.reshape cannot shape the array
                   /\ mta_err' = "ReshapeError"
                   /\ mta_pc' = "raised"
                   /\ UNCHANGED mta_ser
              ELSE IF series_num = 0
              THEN \* ser[0, :, 0] on an array without series
                   /\ mta_err' = "IndexError"
                   /\ mta_pc' = "raised"
                   /\ UNCHANGED mta_ser
              ELSE /\ mta_ser' = [shape |-> <<series_num, mta_series_len, meters>>,
                                  cols  |-> sorted]
                   /\ mta_pc' = "returned"
                   /\ UNCHANGED mta_err
    /\ UNCHANGED <<mta_request, mta_caller_list, mta_appliances, mta_series_len,
                   mta_max_series, mta_to_int, mta_raw>>
    /\ UNCHANGED <<sweepVars, ecsVars, datasetVars>>

\* The names a raw channel of the table can carry.
DataNames == {"_main", "fridge", "kettle"}

\* The names a caller can ask for.
RequestNames == {"_main", "fridge", "kettle", "tv", "Fridge", "3dprinter"}

\* The load of a raw channel, in half watts.
LoadOf(name) == IF name = "_main" THEN 7 ELSE 3

\* The tables df_from_sections can deliver for rows readings: raw channels
\* named after the main meter and the appliances, several channels may carry
\* the same name.
RawTables(rows) ==
    {[rows |-> rows,
      cols |-> [k \in 1..Len(q) |-> [name |-> q[k], vals |-> [i \in 1..rows |-> LoadOf(q[k])]]]] :
        q \in UNION {[1..n -> DataNames] : n \in 0..MaxRawColumns}}

\* The appliances arguments: None, or a list of distinct names.
Requests ==
    {NoAppliances} \cup
    {[given |-> TRUE, names |-> q] :
        q \in {r \in UNION {[1..n -> RequestNames] : n \in 0..MaxRequested} :
                 \A i, j \in 1..Len(r) : i # j => r[i] # r[j]}}

InitArguments ==
    /\ SweepIdle
    /\ EcsIdle
    /\ DatasetIdleBut("none")
    /\ mta_request \in Requests
    /\ mta_caller_list = mta_request.names
    /\ mta_appliances = mta_request
    /\ mta_series_len \in {1, 2}
    /\ mta_max_series \in {None, 0, 1}
    /\ mta_to_int \in BOOLEAN
    /\ mta_ser = NoArray
    /\ mta_err = "none"

\* metergroup_to_array is called.
InitArray ==
    /\ InitArguments
    /\ mta_raw = EmptyTable
    /\ mta_df = EmptyTable
    /\ mta_pc = "call"

NextArray == MtaCallGoodSections

SpecArray == InitArray /\ [][NextArray]_vars

\* The body of metergroup_to_array from line 157 on, for a table that
\* df_from_sections delivered and that passed the continuity check.
InitColumns ==
    /\ InitArguments
    /\ \E series_num \in 0..1 : mta_raw \in RawTables(series_num * mta_series_len)
    /\ mta_max_series = None
    /\ mta_df = mta_raw
    /\ mta_pc = "groupsum"

NextColumns ==
    \/ MtaGroupSum
    \/ MtaSelect
    \/ MtaReshape

SpecColumns == InitColumns /\ [][NextColumns]_vars

\* The main meter is column 0 and the other columns follow in
\* lexicographic order of their names.
MainFirstThenSorted ==
    LET cols == mta_ser.cols
    IN  /\ cols[1].name = "_main"
        /\ \A i, j \in 2..Len(cols) : i < j => NameLess(cols[i].name, cols[j].name)

ColumnContract ==
    LET wanted == SeqToSet(mta_request.names) \cup {"_main"}
        cols   == mta_ser.cols
        summed == GroupSum(mta_raw, mta_to_int).cols
    IN  /\ Len(cols) = Cardinality(wanted)
        /\ mta_ser.shape[3] = Cardinality(wanted)
        /\ ColumnNames(cols) = wanted
        /\ \A k \in 1..Len(cols) :
              IF cols[k].name \in ColumnNames(mta_raw.cols)
              THEN \E c \in SeqToSet(summed) : c = cols[k]
              ELSE \A i \in 1..mta_raw.rows : cols[k].vals[i] = 0

\* C10: a call restricted to a named set of appliances returns the array
\* with exactly one column per requested name plus the main meter, missing
\* appliances as zeros, unrequested ones dropped.
C10_RequestedColumns ==
    (mta_pc \in {"returned", "raised"} /\ mta_request.given) =>
        (mta_pc = "returned" /\ ColumnContract)

\* What lines 168-191 do for a table that reaches them: the column
\* contract holds of every array they build.
ColumnsBuiltAsRequested ==
    (mta_pc = "returned" /\ mta_request.given) => ColumnContract

\* The table of a metergroup without usable interval: no reading at all.
NoUsableInterval == mta_raw.rows = 0

\* C11: when no usable interval remains, metergroup_to_array returns an
\* empty result, an array of zero series, and raises no error.
C11_EmptyResultNoError ==
    (mta_pc \in {"returned", "raised"} /\ NoUsableInterval) =>
        (mta_pc = "returned" /\ mta_err = "none" /\ mta_ser.shape[1] = 0)

\* C13: a call with max_series = k returns an array of shape (series_num,
\* series_len, meters) with series_num <= k: the caller's cap is the cap
\* the good-section finder applies.
C13_CallerCapApplied ==
    (mta_pc \in {"returned", "raised"} /\ mta_max_series # None) =>
        (/\ mta_pc = "returned"
         /\ mta_err = "none"
         /\ mta_ser.shape[1] <= mta_max_series
         /\ mta_ser.shape[2] = mta_series_len)

-----------------------------------------------------------------------------
(* metergroup_from_file (data_loader.py) and ukdale_datastore_to_series    *)
(* (ukdale_data.py): what happens to an appliance the household lacks      *)

\* The labels a building's appliances can carry.
BuildingLabels == {"Fridge", "Kettle", "Toaster"}

\* The names a caller of metergroup_from_file can ask for.
TargetNames == {"fridge", "kettle", "tv", "Fridge"}

\* Line 48: str.lower().
Lower(name) ==
    CASE name = "Fridge"  -> "fridge"
      [] name = "Kettle"  -> "kettle"
      [] name = "Toaster" -> "toaster"
      [] OTHER            -> name

\* Lines 47-48: the set of the building's labels, in lower case.
BuildingAppliances(labels) == {Lower(l) : l \in labels}

\* A list that keeps every requested name, found in the building or not.
TargetAppliances_Unfiltered(requested, building) == requested

\* Lines 50-51: the requested names that are in the building, in the
\* order of the request.
TargetAppliances(requested, building) ==
    SelectSeq(requested, LAMBDA app : app \in building)

\* Lines 43-45 and 47-77: appliances None returns every meter; otherwise
\* the names the building lacks are left out, ValueError is raised when
\* none is left, and the main meter and the meters of the names left are
\* returned.
MgfSelect ==
    /\ mgf_pc = "call"
    /\ IF ~mgf_appliances.given
       THEN /\ mgf_group' = {"_main"} \cup mgf_labels
            /\ mgf_pc' = "returned"
            /\ UNCHANGED <<mgf_target, mgf_err>>
       ELSE LET target == TargetAppliances(mgf_appliances.names,
                                           BuildingAppliances(mgf_labels))
            IN  /\ mgf_target' = target
                /\ IF Len(target) = 0
                   THEN /\ mgf_err' = "ValueError"
                        /\ mgf_pc' = "raised"
                        /\ UNCHANGED mgf_group
                   ELSE /\ mgf_group' = {"_main"} \cup
                               {l \in mgf_labels : Lower(l) \in SeqToSet(target)}
                        /\ mgf_pc' = "returned"
                        /\ UNCHANGED mgf_err
    /\ UNCHANGED <<mgf_labels, mgf_appliances>>
    /\ UNCHANGED exceptMgf

\* The labels labels.dat can hold and a caller can pass.
MeterLabels == {"fridge", "freezer", "kettle"}

\* The most meters a house has in labels.dat.
MaxMeters == 2

\* Lines 15-19 with dict.get(lab, lab) of lines 115 and 123.
APPLIANCE_NAMES(lab) ==
    CASE lab = "freezer"       -> "fridge"
      [] lab = "fridgefreezer" -> "fridge"
      [] lab = "washerdryer"   -> "washingmachine"
      [] OTHER                 -> lab

\* Lines 114-115 and 122-123: homogenize_string, then the alias table.
Canonical(homogenize, lab) == APPLIANCE_NAMES(homogenize[lab])

\* Lines 113-118: the input label is homogenized, the placeholder is set.
UdsEnter ==
    /\ uds_pc = "call"
    /\ uds_canon' = Canonical(uds_homogenize, uds_label)
    /\ uds_s' = None
    /\ uds_i' = 1
    /\ uds_pc' = "loop"
    /\ UNCHANGED <<uds_labels, uds_label, uds_homogenize, uds_err>>
    /\ UNCHANGED exceptUds

\* Lines 121-127, one iteration of the for loop: the records of a meter
\* whose label matches are loaded into s.
UdsVisit ==
    /\ uds_pc = "loop"
    /\ uds_i <= Len(uds_labels)
    /\ uds_s' = IF Canonical(uds_homogenize, uds_labels[uds_i]) = uds_canon
                THEN uds_i ELSE uds_s
    /\ uds_i' = uds_i + 1
    /\ UNCHANGED <<uds_labels, uds_label, uds_homogenize, uds_canon, uds_err, uds_pc>>
    /\ UNCHANGED exceptUds

\* Lines 129-136: ValueError when no meter matched, else s is returned.
UdsReturn ==
    /\ uds_pc = "loop"
    /\ uds_i > Len(uds_labels)
    /\ IF uds_s = None
       THEN /\ uds_err' = "ValueError"
            /\ uds_pc' = "raised"
       ELSE /\ uds_pc' = "returned"
            /\ UNCHANGED uds_err
    /\ UNCHANGED <<uds_labels, uds_label, uds_homogenize, uds_canon, uds_i, uds_s>>
    /\ UNCHANGED exceptUds

\* The appliances arguments of metergroup_from_file: None or a list.
TargetRequests ==
    {NoAppliances} \cup
    {[given |-> TRUE, names |-> q] : q \in UNION {[1..n -> TargetNames] : n \in 0..MaxRequested}}

\* metergroup_from_file is called on a building.
InitMgf ==
    /\ mgf_labels \in SUBSET BuildingLabels
    /\ mgf_appliances \in TargetRequests
    /\ mgf_target = <<>>
    /\ mgf_group = {}
    /\ mgf_err = "none"
    /\ mgf_pc = "call"

\* ukdale_datastore_to_series is called on a house; homogenize_string is
\* any function of the strings it is given.
InitUds ==
    /\ uds_labels \in UNION {[1..n -> MeterLabels] : n \in 0..MaxMeters}
    /\ uds_label \in MeterLabels
    /\ uds_homogenize \in [MeterLabels -> MeterLabels \cup {"fridgefreezer"}]
    /\ uds_canon = "none"
    /\ uds_i = None
    /\ uds_s = None
    /\ uds_err = "none"
    /\ uds_pc = "call"

\* One of the two loaders is called.
InitLookup ==
    /\ SweepIdle
    /\ EcsIdle
    /\ MtaIdle
    /\ \/ InitMgf /\ DatasetIdleBut("metergroup_from_file")
       \/ InitUds /\ DatasetIdleBut("ukdale_datastore_to_series")

NextLookup ==
    \/ MgfSelect
    \/ UdsEnter
    \/ UdsVisit
    \/ UdsReturn

SpecLookup == InitLookup /\ [][NextLookup]_vars

\* The requested names the building lacks.
AbsentRequested ==
    {a \in SeqToSet(mgf_appliances.names) : \A l \in mgf_labels : Lower(l) # a}

\* The meters of the house that carry the requested label.
MatchingMeters ==
    {i \in 1..Len(uds_labels) :
        Canonical(uds_homogenize, uds_labels[i]) = Canonical(uds_homogenize, uds_label)}

-----------------------------------------------------------------------------
(* Power (ukdale_data.py, lines 220-250) and DataSet.__getitem__           *)
(* (nilm_thresholding/data/loader.py, lines 94-119): the windows a get     *)
(* returns. Positions of a series are counted from 0, as iloc counts them. *)

\* The series of a dataset hold at most MaxSamples samples.
MaxSamples == 7

\* The values of length and border the datasets are built with.
Lengths == {1, 2}

Borders == {0, 1, 2}

\* numpy's global generator is told apart by the count of the numbers
\* taken from it, modulo RandomPeriod.
RandomPeriod == 4

\* Python's reading of a slice bound k on a sequence of n items.
SliceBound(k, n) ==
    IF k < 0 THEN (IF k + n < 0 THEN 0 ELSE k + n)
    ELSE (IF k > n THEN n ELSE k)

\* series.iloc[start:stop].values: the samples at the positions
\* start..stop-1, bounds read the way Python reads them.
IlocSlice(q, start, stop) ==
    LET lo == SliceBound(start, Len(q))
        hi == SliceBound(stop, Len(q))
    IN  [j \in 1..(IF hi > lo THEN hi - lo ELSE 0) |-> q[lo + j]]

RECURSIVE SumSeq(_)
SumSeq(q) == IF q = <<>> THEN 0 ELSE Head(q) + SumSeq(Tail(q))

\* Line 246, x -= x.mean(), in units of 1/len(x) to stay in the integers.
MeanCentered(x) == [k \in 1..Len(x) |-> Len(x) * x[k] - SumSeq(x)]

\* The windows a series still holds when no border is set aside.
Epochs_NoBorder(n, length, border) == n \div length

\* Line 232: self.epochs.
Epochs(n, length, border) == (n - 2 * border) \div length

\* Line 235: the origin of the window of an index.
Origin(index, length, border) == index * length + border

\* An upper bound that randint would include in its draws.
RandHigh_Inclusive(n, length, border) == n - length - border + 1

\* Lines 237-238: the arguments of np.random.randint; high is excluded.
RandLow(border) == border

RandHigh(n, length, border) == n - length - border

\* An input window that stops where the target stops.
InputStop_NoBorder(i, length, border) == i + length

\* Lines 240-241: the bounds of the input window.
InputStart(i, border) == i - border

InputStop(i, length, border) == i + length + border

\* Lines 234-235: __getitem__(index) is called by a loader, which takes
\* its indexes from range(len(dataset)); the origin is computed.
PwCall(c, index) ==
    /\ pw_pc[c] \in {"idle", "returned", "raised"}
    /\ index \in 0..(pw_epochs - 1)
    /\ pw_index' = [pw_index EXCEPT ![c] = index]
    /\ pw_i' = [pw_i EXCEPT ![c] = Origin(index, pw_length, pw_border)]
    /\ pw_x' = [pw_x EXCEPT ![c] = <<>>]
    /\ pw_y' = [pw_y EXCEPT ![c] = <<>>]
    /\ pw_s' = [pw_s EXCEPT ![c] = <<>>]
    /\ pw_err' = [pw_err EXCEPT ![c] = "none"]
    /\ pw_pc' = [pw_pc EXCEPT ![c] = IF pw_train THEN "draw" ELSE "slice"]
    /\ UNCHANGED <<pw_meter, pw_appliance, pw_status, pw_length, pw_border,
                   pw_train, pw_epochs, np_random>>
    /\ UNCHANGED exceptPower

\* Lines 236-238: np.random.randint returns o, taken from the global
\* generator, which moves on.
PwDrawAt(c, o) ==
    /\ pw_pc[c] = "draw"
    /\ o \in RandLow(pw_border)..(RandHigh(Len(pw_meter), pw_length, pw_border) - 1)
    /\ pw_i' = [pw_i EXCEPT ![c] = o]
    /\ np_random' = (np_random + 1) % RandomPeriod
    /\ pw_pc' = [pw_pc EXCEPT ![c] = "slice"]
    /\ UNCHANGED <<pw_meter, pw_appliance, pw_status, pw_length, pw_border,
                   pw_train, pw_epochs, pw_index, pw_x, pw_y, pw_s, pw_err>>
    /\ UNCHANGED exceptPower

\* Lines 237-238: np.random.randint raises ValueError when low >= high.
PwDrawEmpty(c) ==
    /\ pw_pc[c] = "draw"
    /\ RandLow(pw_border) >= RandHigh(Len(pw_meter), pw_length, pw_border)
    /\ pw_err' = [pw_err EXCEPT ![c] = "ValueError"]
    /\ pw_pc' = [pw_pc EXCEPT ![c] = "raised"]
    /\ UNCHANGED <<pw_meter, pw_appliance, pw_status, pw_length, pw_border,
                   pw_train, pw_epochs, np_random, pw_index, pw_i, pw_x, pw_y, pw_s>>
    /\ UNCHANGED exceptPower

\* Variant of PwSlice: the input is centered in place in the stored meter
\* series (a window that is a view of it, not the copy astype makes).
PwSlice_InPlace(c) ==
    /\ pw_pc[c] = "slice"
    /\ LET start == SliceBound(InputStart(pw_i[c], pw_border), Len(pw_meter))
           x     == MeanCentered(IlocSlice(pw_meter, InputStart(pw_i[c], pw_border),
                                           InputStop(pw_i[c], pw_length, pw_border)))
       IN  /\ pw_x' = [pw_x EXCEPT ![c] = x]
           /\ pw_meter' = [k \in 1..Len(pw_meter) |->
                             IF k - start \in 1..Len(x) THEN x[k - start]
                             ELSE pw_meter[k]]
    /\ pw_y' = [pw_y EXCEPT ![c] = IlocSlice(pw_appliance, pw_i[c], pw_i[c] + pw_length)]
    /\ pw_s' = [pw_s EXCEPT ![c] = IlocSlice(pw_status, pw_i[c], pw_i[c] + pw_length)]
    /\ pw_pc' = [pw_pc EXCEPT ![c] = "returned"]
    /\ UNCHANGED <<pw_appliance, pw_status, pw_length, pw_border,
                   pw_train, pw_epochs, np_random, pw_index, pw_i, pw_err>>
    /\ UNCHANGED exceptPower

\* Lines 240-248: the three windows are cut, the input is centered, the
\* triple is returned.
PwSlice(c) ==
    /\ pw_pc[c] = "slice"
    /\ pw_x' = [pw_x EXCEPT ![c] =
                  MeanCentered(IlocSlice(pw_meter, InputStart(pw_i[c], pw_border),
                                         InputStop(pw_i[c], pw_length, pw_border)))]
    /\ pw_y' = [pw_y EXCEPT ![c] = IlocSlice(pw_appliance, pw_i[c], pw_i[c] + pw_length)]
    /\ pw_s' = [pw_s EXCEPT ![c] = IlocSlice(pw_status, pw_i[c], pw_i[c] + pw_length)]
    /\ pw_pc' = [pw_pc EXCEPT ![c] = "returned"]
    /\ UNCHANGED <<pw_meter, pw_appliance, pw_status, pw_length, pw_border,
                   pw_train, pw_epochs, np_random, pw_index, pw_i, pw_err>>
    /\ UNCHANGED exceptPower

\* The series a Power object is given: every sample of the meter and of
\* the appliance differs from the others, the status is binary.
MeterSeries(n) == [k \in 1..n |-> 2 * k - 1]

ApplianceSeries(n) == [k \in 1..n |-> k - 1]

StatusSeries(n) == [k \in 1..n |-> (k - 1) % 2]

\* Lines 221-232: a Power object was built over n samples (max_power 1).
InitPw ==
    /\ \E n \in 0..MaxSamples :
          /\ pw_meter = MeterSeries(n)
          /\ pw_appliance = ApplianceSeries(n)
          /\ pw_status = StatusSeries(n)
    /\ pw_length \in Lengths
    /\ pw_border \in Borders
    /\ pw_train \in BOOLEAN
    /\ pw_epochs = Epochs(Len(pw_meter), pw_length, pw_border)
    /\ np_random = 0
    /\ pw_index = [c \in Readers |-> None]
    /\ pw_i = [c \in Readers |-> None]
    /\ pw_x = [c \in Readers |-> <<>>]
    /\ pw_y = [c \in Readers |-> <<>>]
    /\ pw_s = [c \in Readers |-> <<>>]
    /\ pw_err = [c \in Readers |-> "none"]
    /\ pw_pc = [c \in Readers |-> "idle"]

\* Lines 105-107, Threshold.get_status on one value: on from the threshold
\* upwards.
StatusOf(v, threshold) == IF v >= threshold THEN 1 ELSE 0

\* Lines 110-119: x is the whole column "aggregate" of the file, y the
\* appliance rows _idx_start.._idx_end-1, both divided by power_scale;
\* s is the status of y.
NdsGetItem ==
    /\ nds_pc = "call"
    /\ nds_x' = [k \in 1..Len(nds_aggregate) |-> nds_aggregate[k] \div nds_power_scale]
    /\ LET rows == IlocSlice(nds_load, nds_idx_start, nds_idx_end)
           y    == [k \in 1..Len(rows) |-> rows[k] \div nds_power_scale]
       IN  /\ nds_y' = y
           /\ nds_s' = [k \in 1..Len(y) |-> StatusOf(y[k], nds_threshold)]
    /\ nds_pc' = "returned"
    /\ UNCHANGED <<nds_aggregate, nds_load, nds_power_scale, nds_border, nds_length,
                   nds_idx_start, nds_idx_end, nds_threshold>>
    /\ UNCHANGED exceptNds

\* Lines 36-47 and 94-103: a DataSet was built on files of n rows whose
\* values are multiples of power_scale; length is the row count of the
\* first file.
InitNds ==
    /\ nds_power_scale \in {1, 2}
    /\ nds_border \in Borders
    /\ nds_threshold \in {1, 2}
    /\ \E n \in 0..MaxSamples :
          /\ nds_aggregate = [k \in 1..n |-> nds_power_scale * (2 * k - 1)]
          /\ nds_load = [k \in 1..n |-> nds_power_scale * (k - 1)]
          /\ nds_length = n
          /\ nds_idx_start = nds_border
          /\ nds_idx_end = n - nds_border
    /\ nds_x = <<>>
    /\ nds_y = <<>>
    /\ nds_s = <<>>
    /\ nds_pc = "call"

\* A dataset was built and is read.
InitPower ==
    /\ SweepIdle
    /\ EcsIdle
    /\ MtaIdle
    /\ \/ InitPw /\ DatasetIdleBut("Power")
       \/ InitNds /\ DatasetIdleBut("DataSet")

NextPower ==
    \/ \E c \in Readers : \E index \in 0..MaxSamples : PwCall(c, index)
    \/ \E c \in Readers : \E o \in 0..MaxSamples : PwDrawAt(c, o)
    \/ \E c \in Readers : PwDrawEmpty(c)
    \/ \E c \in Readers : PwSlice(c)
    \/ NdsGetItem

SpecPower == InitPower /\ [][NextPower]_vars

\* The samples of a series at the positions start..stop-1.
Samples(q, start, stop) == [j \in 1..(stop - start) |-> q[start + j]]

\* The positions start..stop-1 lie inside a series of n samples.
Inside(start, stop, n) == 0 <= start /\ start <= stop /\ stop <= n

\* C14: a Power dataset over N samples has (N - 2*border) // length
\* windows, the most that fit beside the two borders; in evaluation mode
\* index i, 0 <= i < length(), has the origin border + i*length, the
\* target windows of distinct indices share no sample, and the input
\* window [origin - border, origin + length + border) lies inside the N
\* samples.
C14_EvalWindows ==
    pw_epochs # None =>
        LET n == Len(pw_meter)
        IN  /\ pw_epochs * pw_length + 2 * pw_border <= n
            /\ n < (pw_epochs + 1) * pw_length + 2 * pw_border
            /\ \A c \in Readers :
                  (~pw_train /\ pw_pc[c] = "returned") =>
                      /\ pw_index[c] \in 0..(pw_epochs - 1)
                      /\ pw_i[c] = pw_border + pw_index[c] * pw_length
                      /\ Inside(pw_i[c] - pw_border,
                                pw_i[c] + pw_length + pw_border, n)
                      /\ pw_x[c] = MeanCentered(Samples(pw_meter, pw_i[c] - pw_border,
                                                pw_i[c] + pw_length + pw_border))
            /\ \A c, d \in Readers :
                  (/\ ~pw_train
                   /\ pw_pc[c] = "returned"
                   /\ pw_pc[d] = "returned"
                   /\ pw_index[c] # pw_index[d]) =>
                      /\ \/ pw_i[c] + pw_length <= pw_i[d]
                         \/ pw_i[d] + pw_length <= pw_i[c]
                      /\ SeqToSet(pw_y[c]) \cap SeqToSet(pw_y[d]) = {}

\* Two evaluation reads of neighbouring indexes, the last index among
\* them, on a dataset with a border.
C14_Witness ==
    /\ ~pw_train
    /\ pw_border > 0
    /\ pw_length > 1
    /\ pw_pc[1] = "returned"
    /\ pw_pc[2] = "returned"
    /\ pw_index[2] = pw_index[1] + 1
    /\ pw_index[2] = pw_epochs - 1

\* C15: in training mode a get ignores its index and uses an origin o
\* with border <= o < N - length - border; every origin of that range
\* can be drawn, whatever the index, and no other.
C15_TrainOrigin ==
    pw_train =>
        LET n == Len(pw_meter)
        IN  \A c \in Readers :
               /\ pw_pc[c] \in {"slice", "returned"} =>
                      /\ pw_border <= pw_i[c]
                      /\ pw_i[c] < n - pw_length - pw_border
               /\ pw_pc[c] = "draw" =>
                      \A o \in -1..(MaxSamples + 1) :
                          (ENABLED PwDrawAt(c, o)) <=>
                              (pw_border <= o /\ o < n - pw_length - pw_border)

\* Two training reads of the same index that drew the two ends of the
\* range, neither the origin of the index.
C15_Witness ==
    /\ pw_train
    /\ pw_pc[1] = "returned"
    /\ pw_pc[2] = "returned"
    /\ pw_index[1] = pw_index[2]
    /\ pw_i[1] = pw_border
    /\ pw_i[2] = Len(pw_meter) - pw_length - pw_border - 1
    /\ pw_i[1] # Origin(pw_index[1], pw_length, pw_border)
    /\ pw_i[2] # Origin(pw_index[2], pw_length, pw_border)

\* C16: for every successful get, in either mode, the input window has
\* exactly length + 2*border samples, those of [o - border, o + length +
\* border), and the target and status windows have exactly length
\* samples, those of [o, o + length). For DataSet, o is border and length
\* is the row count of the file less the two borders.
C16_WindowsAroundOrigin ==
    /\ \A c \in Readers :
          pw_pc[c] = "returned" =>
              LET o == pw_i[c]
              IN  /\ Len(pw_x[c]) = pw_length + 2 * pw_border
                  /\ Len(pw_y[c]) = pw_length
                  /\ Len(pw_s[c]) = pw_length
                  /\ Inside(o - pw_border, o + pw_length + pw_border, Len(pw_meter))
                  /\ pw_x[c] = MeanCentered(Samples(pw_meter, o - pw_border,
                                                    o + pw_length + pw_border))
                  /\ pw_y[c] = Samples(pw_appliance, o, o + pw_length)
                  /\ pw_s[c] = Samples(pw_status, o, o + pw_length)
    /\ (nds_pc = "returned" /\ Len(nds_aggregate) >= 2 * nds_border) =>
          LET o      == nds_border
              length == Len(nds_aggregate) - 2 * nds_border
          IN  /\ Len(nds_x) = length + 2 * nds_border
              /\ Len(nds_y) = length
              /\ Len(nds_s) = length
              /\ \A k \in 1..Len(nds_x) :
                    nds_x[k] * nds_power_scale = nds_aggregate[o - nds_border + k]
              /\ \A k \in 1..length :
                    nds_y[k] * nds_power_scale = nds_load[o + k]

\* A training read and an evaluation-style origin apart: a window with a
\* border on both sides, away from both ends of the series.
C16_Witness ==
    /\ pw_train
    /\ pw_border > 0
    /\ \E c \in Readers :
          /\ pw_pc[c] = "returned"
          /\ pw_i[c] > pw_border
          /\ pw_i[c] + pw_length + pw_border < Len(pw_meter)

\* C17: concurrent training-mode gets share no mutable state: while a
\* call waits for its random origin, no other call's draw writes the
\* generator that origin is read from.
C17_IndependentRandomSource ==
    [][\A c, d \in Readers :
          (/\ c # d
           /\ pw_pc[c] = "draw"
           /\ pw_pc[d] = "draw"
           /\ pw_pc'[c] # "draw") => np_random' = np_random]_vars

-----------------------------------------------------------------------------
(* load_ukdale_series (ukdale_data.py, lines 200-215) and                  *)
(* _train_valid_test (lines 253-299), for one building and one appliance   *)

\* A house holds at most MaxHouseSamples samples.
MaxHouseSamples == 5

\* The loads an appliance sample can take.
Loads == {0, 4}

\* The fractions train_size and valid_size, in tenths.
Tenths == 0..10

\* int(fraction * n) for a fraction given in tenths: the whole part of the
\* product; a product that is a whole number in exact arithmetic can come
\* out just below it in floating point.
IntOfProduct(tenths, n) ==
    LET exact == tenths * n
    IN  {exact \div 10} \cup
        (IF exact % 10 = 0 /\ exact > 0 THEN {exact \div 10 - 1} ELSE {})

\* Lines 200-211: the thresholds are computed from the appliance series of
\* the house, the status of every row is derived with them.
SpLoad ==
    /\ sp_pc = "load"
    /\ sp_thr_data' = sp_appliance
    /\ sp_thr_calls' = sp_thr_calls + 1
    /\ sp_status' = [k \in 1..Len(sp_appliance) |->
                        [row |-> k - 1, thresholds |-> sp_thr_calls + 1]]
    /\ sp_pc' = "split"
    /\ UNCHANGED <<sp_appliance, sp_train_size, sp_valid_size, sp_cut_train,
                   sp_cut_valid, sp_train, sp_valid, sp_test, sp_err>>
    /\ UNCHANGED exceptSplit

\* Variant of SpSplit: the test part starts at the cut of the training
\* part.
SpSplit_TestFromTrainCut ==
    /\ sp_pc = "split"
    /\ \E cut_train \in IntOfProduct(sp_train_size, Len(sp_appliance)) :
       \E cut_valid \in IntOfProduct(sp_train_size + sp_valid_size, Len(sp_appliance)) :
          /\ cut_train <= cut_valid
          /\ sp_cut_train' = cut_train
          /\ sp_cut_valid' = cut_valid
          /\ sp_train' = [train     |-> TRUE,
                          appliance |-> IlocSlice(sp_appliance, 0, cut_train),
                          status    |-> IlocSlice(sp_status, 0, cut_train)]
          /\ sp_valid' = [train     |-> FALSE,
                          appliance |-> IlocSlice(sp_appliance, cut_train, cut_valid),
                          status    |-> IlocSlice(sp_status, cut_train, cut_valid)]
          /\ sp_test' = [train     |-> FALSE,
                         appliance |-> IlocSlice(sp_appliance, cut_train, Len(sp_appliance)),
                         status    |-> IlocSlice(sp_status, cut_train, Len(sp_status))]
    /\ sp_pc' = "returned"
    /\ UNCHANGED <<sp_appliance, sp_train_size, sp_valid_size, sp_thr_data,
                   sp_thr_calls, sp_status, sp_err>>
    /\ UNCHANGED exceptSplit

\* Lines 274-299: the series and the status are cut at int(train_size *
\* len) and int((train_size + valid_size) * len); each part becomes a
\* Power dataset, the first in training mode.
SpSplit ==
    /\ sp_pc = "split"
    /\ \E cut_train \in IntOfProduct(sp_train_size, Len(sp_appliance)) :
       \E cut_valid \in IntOfProduct(sp_train_size + sp_valid_size, Len(sp_appliance)) :
          /\ cut_train <= cut_valid
          /\ sp_cut_train' = cut_train
          /\ sp_cut_valid' = cut_valid
          /\ sp_train' = [train     |-> TRUE,
                          appliance |-> IlocSlice(sp_appliance, 0, cut_train),
                          status    |-> IlocSlice(sp_status, 0, cut_train)]
          /\ sp_valid' = [train     |-> FALSE,
                          appliance |-> IlocSlice(sp_appliance, cut_train, cut_valid),
                          status    |-> IlocSlice(sp_status, cut_train, cut_valid)]
          /\ sp_test' = [train     |-> FALSE,
                         appliance |-> IlocSlice(sp_appliance, cut_valid, Len(sp_appliance)),
                         status    |-> IlocSlice(sp_status, cut_valid, Len(sp_status))]
    /\ sp_pc' = "returned"
    /\ UNCHANGED <<sp_appliance, sp_train_size, sp_valid_size, sp_thr_data,
                   sp_thr_calls, sp_status, sp_err>>
    /\ UNCHANGED exceptSplit

\* The series of a house was read; the fractions are the caller's.
InitSplit ==
    /\ SweepIdle
    /\ EcsIdle
    /\ MtaIdle
    /\ DatasetIdleBut("_train_valid_test")
    /\ sp_appliance \in UNION {[1..n -> Loads] : n \in 1..MaxHouseSamples}
    /\ sp_train_size \in Tenths
    /\ sp_valid_size \in Tenths
    /\ sp_thr_data = <<>>
    /\ sp_thr_calls = 0
    /\ sp_status = <<>>
    /\ sp_cut_train = None
    /\ sp_cut_valid = None
    /\ sp_train = NoDataset
    /\ sp_valid = NoDataset
    /\ sp_test = NoDataset
    /\ sp_err = "none"
    /\ sp_pc = "load"

NextSplit ==
    \/ SpLoad
    \/ SpSplit

SpecSplit == InitSplit /\ [][NextSplit]_vars

\* The thresholds behind the status rows of a dataset.
ThresholdsOf(dataset) == {dataset.status[k].thresholds : k \in 1..Len(dataset.status)}

\* C18: the threshold of an appliance is computed once, from the training
\* portion of the data only, and the status of the validation and test
\* portions is derived with that same threshold.
C18_ThresholdFromTrainingOnly ==
    sp_pc = "returned" =>
        /\ sp_thr_calls = 1
        /\ sp_thr_data = sp_train.appliance
        /\ ThresholdsOf(sp_valid) \cup ThresholdsOf(sp_test) \subseteq {1}

\* C19: building the datasets with train_size + valid_size > 1 is
\* rejected with a configuration error before any dataset is produced.
C19_FractionsAboveOneRejected ==
    (sp_pc \in {"returned", "raised"} /\ sp_train_size + sp_valid_size > 10) =>
        /\ sp_pc = "raised"
        /\ sp_err = "ConfigurationError"
        /\ sp_train = NoDataset
        /\ sp_valid = NoDataset
        /\ sp_test = NoDataset

-----------------------------------------------------------------------------
(* get_status_by_duration, as the scripts of papers/ call it               *)
(* (massidda_2020_seen.py, lines 118-119 and 179): binarization, then the  *)
(* duration filter of the Status Thresholder                               *)

\* A load or status sequence holds at most MaxStatusLen samples.
MaxStatusLen == 6

\* min_off and min_on lie in 1..MaxDuration samples.
MaxDuration == 3

\* The loads of the sequences: off, and on at 5.
DurationLoads == {0, 5}

\* Line 179: the threshold .5 a status is filtered again with, in halves.
StatusThreshold == 1

\* Binarization: a sample is 1 if power >= threshold, else 0; the
\* threshold is given in halves of the unit of the load.
Binarize(power, threshold) ==
    [k \in 1..Len(power) |-> IF 2 * power[k] >= threshold THEN 1 ELSE 0]

\* The positions a..b are a maximal run of the value v in s.
IsRun(s, a, b, v) ==
    /\ 1 <= a /\ a <= b /\ b <= Len(s)
    /\ \A k \in a..b : s[k] = v
    /\ (a = 1 \/ s[a - 1] # v)
    /\ (b = Len(s) \/ s[b + 1] # v)

\* Position k lies in an off run shorter than min_off that has an on
\* sample on both sides.
InShortGap(s, k, min_off) ==
    \E a \in 1..k : \E b \in k..Len(s) :
        /\ IsRun(s, a, b, 0)
        /\ a > 1
        /\ b < Len(s)
        /\ b - a + 1 < min_off

\* Position k lies in an on run shorter than min_on; runs that touch an
\* end of the sequence count like the others.
InShortOnRun(s, k, min_on) ==
    \E a \in 1..k : \E b \in k..Len(s) :
        /\ IsRun(s, a, b, 1)
        /\ b - a + 1 < min_on

\* The short off gaps are merged into the on runs around them.
FillShortOff(s, min_off) ==
    [k \in 1..Len(s) |-> IF InShortGap(s, k, min_off) THEN 1 ELSE s[k]]

\* The on runs that are still too short are switched off.
DiscardShortOn(s, min_on) ==
    [k \in 1..Len(s) |-> IF InShortOnRun(s, k, min_on) THEN 0 ELSE s[k]]

\* A filter that measures the on runs before the gaps were filled.
FilterByDuration_StaleRuns(s, min_off, min_on) ==
    LET filled == FillShortOff(s, min_off)
    IN  [k \in 1..Len(s) |-> IF InShortOnRun(s, k, min_on) THEN 0 ELSE filled[k]]

\* A filter that discards the short on runs before it fills the gaps.
FilterByDuration_DiscardFirst(s, min_off, min_on) ==
    FillShortOff(DiscardShortOn(s, min_on), min_off)

\* The duration filter: gaps are filled first, short on runs are discarded
\* afterwards.
FilterByDuration(s, min_off, min_on) ==
    DiscardShortOn(FillShortOff(s, min_off), min_on)

\* get_status_by_duration(arr, thresholds, min_off, min_on) for one appliance.
get_status_by_duration(arr, threshold, min_off, min_on) ==
    FilterByDuration(Binarize(arr, threshold), min_off, min_on)

\* Line 118: bin_train = get_status_by_duration(y_train, thresholds,
\* min_off, min_on).
SdFromLoad ==
    /\ sd_calls = 0
    /\ LET bin == get_status_by_duration(sd_power, sd_threshold, sd_min_off, sd_min_on)
       IN  /\ sd_bin' = bin
           /\ sd_first' = bin
    /\ sd_calls' = 1
    /\ UNCHANGED <<sd_power, sd_threshold, sd_min_off, sd_min_on>>
    /\ UNCHANGED exceptDuration

\* Line 179: a status is filtered again, bin = get_status_by_duration(bin,
\* [.5] * 3, min_off, min_on).
SdFromStatus ==
    /\ sd_calls = 1
    /\ sd_bin' = get_status_by_duration(sd_bin, StatusThreshold, sd_min_off, sd_min_on)
    /\ sd_calls' = 2
    /\ UNCHANGED <<sd_power, sd_threshold, sd_min_off, sd_min_on, sd_first>>
    /\ UNCHANGED exceptDuration

\* The trace of the ordering example: a run of 20 samples, on but for a dip
\* of 2 samples inside it.
DipTrace == [k \in 1..20 |-> IF k \in {10, 11} THEN 0 ELSE 5]

\* The load of an appliance and the parameters of the filter: every short
\* load, and the trace of the ordering example.
InitDuration ==
    /\ SweepIdle
    /\ EcsIdle
    /\ MtaIdle
    /\ DatasetIdleBut("get_status_by_duration")
    /\ \/ /\ sd_power \in UNION {[1..n -> DurationLoads] : n \in 0..MaxStatusLen}
          /\ sd_threshold \in {6, 10}
          /\ sd_min_off \in 1..MaxDuration
          /\ sd_min_on \in 1..MaxDuration
       \/ /\ sd_power = DipTrace
          /\ sd_threshold = 6
          /\ sd_min_off = 3
          /\ sd_min_on = 5
    /\ sd_bin = <<>>
    /\ sd_first = <<>>
    /\ sd_calls = 0

NextDuration ==
    \/ SdFromLoad
    \/ SdFromStatus

SpecDuration == InitDuration /\ [][NextDuration]_vars

\* C20: duration filtering is idempotent: for every binary sequence and
\* every min_on and min_off, filtering the filtered sequence again
\* returns it unchanged.
C20_FilterIdempotent ==
    sd_calls = 2 => sd_bin = sd_first

\* A sequence that the first filtering changed in both ways, a gap filled
\* and an on run discarded, was filtered again.
C20_Witness ==
    /\ sd_calls = 2
    /\ \E k \in 1..Len(sd_power) :
          Binarize(sd_power, sd_threshold)[k] = 0 /\ sd_first[k] = 1
    /\ \E k \in 1..Len(sd_power) :
          Binarize(sd_power, sd_threshold)[k] = 1 /\ sd_first[k] = 0

\* The status before the duration filter.
RawStatus == Binarize(sd_power, sd_threshold)

\* The positions a..b start and stop on an on sample and hold no stretch
\* of min_off off samples: the on runs in a..b are parted by short dips.
Bridged(s, a, b, min_off) ==
    /\ s[a] = 1
    /\ s[b] = 1
    /\ \A c \in a..b :
          ~(c + min_off - 1 <= b /\ \A k \in c..(c + min_off - 1) : s[k] = 0)

\* C21: the gaps are filled before the on runs are discarded: a sample is
\* on after the filter exactly when it lies in a stretch of on runs parted
\* by off dips shorter than min_off whose merged length is at least
\* min_on, however short each of the runs is; the run of 20 samples with
\* a dip of 2, min_off = 3, min_on = 5, stays fully on.
C21_GapsFilledBeforeRunsDiscarded ==
    sd_calls >= 1 =>
        /\ Len(sd_first) = Len(sd_power)
        /\ \A k \in 1..Len(sd_power) :
              sd_first[k] = 1 <=>
                  \E a \in 1..k : \E b \in k..Len(sd_power) :
                      /\ Bridged(RawStatus, a, b, sd_min_off)
                      /\ b - a + 1 >= sd_min_on
        /\ (sd_power = DipTrace /\ sd_min_off = 3 /\ sd_min_on = 5) =>
              \A k \in 1..20 : sd_first[k] = 1

\* Two on runs, each shorter than min_on, parted by a short dip: all of
\* it is on after the filter.
C21_Witness ==
    /\ sd_calls >= 1
    /\ \E a \in 2..Len(sd_power) : \E b \in a..(Len(sd_power) - 1) :
          /\ IsRun(RawStatus, a, b, 0)
          /\ InShortOnRun(RawStatus, a - 1, sd_min_on)
          /\ InShortOnRun(RawStatus, b + 1, sd_min_on)
          /\ \A k \in (a - 1)..(b + 1) : sd_first[k] = 1

\* C22: the interval opened when the overlap reaches the meter count is
\* closed by the first end stamp after it: while an opening is kept, no end
\* stamp later than it has been visited (so the opening of a discarded
\* interval is not kept for a later one), and no returned interval has an
\* end stamp strictly between its start and its end.
C22_ClosedByFirstEnd ==
    /\ (pc = "loop" /\ ts_start # None) =>
          \A i \in 1..(pos - 1) :
              timestamps[i][2] = "end" => ToUTC(timestamps[i][1]) <= ts_start
    /\ \A k \in 1..Len(good_sections) :
          \A i \in 1..Len(timestamps) :
              timestamps[i][2] = "end" =>
                  ~(/\ good_sections[k].start < ToUTC(timestamps[i][1])
                    /\ ToUTC(timestamps[i][1]) < good_sections[k].end)

\* C23: stamps of one instant are visited start first: the loop has never
\* visited an end stamp while a start stamp of the same instant, of the
\* same meter or of another, is still to be visited.
C23_StartVisitedBeforeEnd ==
    pc \in {"loop", "done"} =>
        \A i \in 1..(pos - 1) : \A j \in pos..Len(timestamps) :
            ~(/\ timestamps[i][2] = "end"
              /\ timestamps[j][2] = "start"
              /\ timestamps[i][1] = timestamps[j][1])

\* Two readers hold the results of evaluation reads of one index.
SameIndexReads(c, d) ==
    /\ ~pw_train
    /\ pw_pc[c] = "returned"
    /\ pw_pc[d] = "returned"
    /\ pw_index[c] = pw_index[d]

\* C24: a get never changes the stored meter, appliance and status
\* series; in evaluation mode two gets of one index return equal triples,
\* whatever gets were made between them.
C24_GetLeavesSeriesUnchanged ==
    /\ [][/\ pw_meter' = pw_meter
          /\ pw_appliance' = pw_appliance
          /\ pw_status' = pw_status]_vars
    /\ [](\A c, d \in Readers :
             SameIndexReads(c, d) =>
                 /\ pw_x[c] = pw_x[d]
                 /\ pw_y[c] = pw_y[d]
                 /\ pw_s[c] = pw_s[d])

\* Two evaluation reads of one index whose input windows overlap the
\* windows of another index, the series as they were built.
C24_Witness ==
    /\ SameIndexReads(1, 2)
    /\ pw_border > 0
    /\ pw_epochs > 1
    /\ pw_x[1] # <<>>
    /\ pw_x[1] = pw_x[2]
    /\ pw_meter = MeterSeries(Len(pw_meter))

\* C25: whenever a training dataset reports a length of at least 1, the
\* range [border, N - length - border) of the origins is not empty and no
\* get raises.
C25_TrainGetSucceeds ==
    (pw_epochs # None /\ pw_train /\ pw_epochs >= 1) =>
        /\ RandLow(pw_border) < RandHigh(Len(pw_meter), pw_length, pw_border)
        /\ \A c \in Readers : pw_pc[c] # "raised"

\* The rows of the house a dataset holds, in the order it holds them.
RowsOf(dataset) == [k \in 1..Len(dataset.status) |-> dataset.status[k].row]

\* C26: with train_size + valid_size <= 1 the three datasets are three
\* contiguous pieces of the series in chronological order: end to end
\* they are the series of the house, every sample in one piece exactly,
\* and only the training piece is built in training mode.
C26_ThreeContiguousPieces ==
    (sp_pc = "returned" /\ sp_train_size + sp_valid_size <= 10) =>
        /\ RowsOf(sp_train) \o RowsOf(sp_valid) \o RowsOf(sp_test)
              = [k \in 1..Len(sp_appliance) |-> k - 1]
        /\ sp_train.appliance \o sp_valid.appliance \o sp_test.appliance
              = sp_appliance
        /\ Len(sp_train.appliance) = Len(sp_train.status)
        /\ Len(sp_valid.appliance) = Len(sp_valid.status)
        /\ Len(sp_test.appliance) = Len(sp_test.status)
        /\ sp_train.train
        /\ ~sp_valid.train
        /\ ~sp_test.train

\* A house cut in three pieces none of which is empty.
C26_Witness ==
    /\ sp_pc = "returned"
    /\ sp_train_size + sp_valid_size < 10
    /\ sp_train.status # <<>>
    /\ sp_valid.status # <<>>
    /\ sp_test.status # <<>>

-----------------------------------------------------------------------------
(* DataSet._list_files (nilm_thresholding/data/loader.py, lines 62-92),    *)
(* for the objects built for the three subsets of one configuration        *)

\* A configuration lists at most MaxListed buildings.
MaxListed == 2

\* The folder of a building holds at most MaxFiles files.
MaxFiles == 3

\* The fractions train_size and valid_size explored, in tenths; .8 and .1
\* are the defaults.
TrainTenths == {5, 8, 12}

ValidTenths == {0, 1, 5}

\* The orders a list of n items can be left in.
Orders(n) == {q \in [1..n -> 1..n] : \A i, j \in 1..n : i # j => q[i] # q[j]}

\* Lines 69-74: the sorted paths of the files of the b-th listed building;
\* a path names its building and its file.
SortedFiles(b) == [k \in 1..lf_buildings[b] |-> <<b, k>>]

\* Lines 78-81: random.seed(random_seed); random.shuffle(files_of_building)
\* leaves the list in the order the seeded generator gives for a list of
\* that length.
ShuffledFiles(files) ==
    IF lf_shuffle
    THEN [j \in 1..Len(files) |-> files[lf_shuffled[Len(files) + 1][j]]]
    ELSE files

\* Variant of TestIdx: the validation count is taken as the index.
TestIdx_FromStart(val_idx, valid_count) == valid_count

\* Line 77: test_idx = val_idx + int(len(files_of_building) * validation_size)
TestIdx(val_idx, valid_count) == val_idx + valid_count

\* Lines 82-88: the slice of the building's files a subset takes.
SubsetFiles(subset, files, val_idx, test_idx) ==
    IF subset = "train" THEN IlocSlice(files, 0, val_idx)
    ELSE IF subset = "validation" THEN IlocSlice(files, val_idx, test_idx)
    ELSE IF subset = "test" THEN IlocSlice(files, test_idx, Len(files))
    ELSE <<>>

\* Lines 36-46 and 64-65: a DataSet is built for a subset; files = [].
LfEnter(subset) ==
    /\ lf_pc = "idle"
    /\ subset \notin lf_built
    /\ lf_subset' = subset
    /\ lf_acc' = <<>>
    /\ lf_b' = 1
    /\ lf_pc' = "loop"
    /\ UNCHANGED <<lf_buildings, lf_train_size, lf_valid_size, lf_shuffle,
                   lf_shuffled, lf_int_train, lf_int_valid, lf_files, lf_epochs,
                   lf_built>>
    /\ UNCHANGED exceptFiles

\* Lines 67-88: one building of the loop.
LfBuilding ==
    /\ lf_pc = "loop"
    /\ lf_b <= Len(lf_buildings)
    /\ LET files_of_building == SortedFiles(lf_b)
           val_idx  == lf_int_train[lf_b]
           test_idx == TestIdx(val_idx, lf_int_valid[lf_b])
       IN  lf_acc' = lf_acc \o SubsetFiles(lf_subset, ShuffledFiles(files_of_building),
                                           val_idx, test_idx)
    /\ lf_b' = lf_b + 1
    /\ UNCHANGED <<lf_buildings, lf_train_size, lf_valid_size, lf_shuffle,
                   lf_shuffled, lf_int_train, lf_int_valid, lf_subset, lf_files,
                   lf_epochs, lf_built, lf_pc>>
    /\ UNCHANGED exceptFiles

\* Lines 89-91: self.files = files; self.epochs = len(files).
LfUpdate ==
    /\ lf_pc = "loop"
    /\ lf_b > Len(lf_buildings)
    /\ lf_files' = [lf_files EXCEPT ![lf_subset] = lf_acc]
    /\ lf_epochs' = [lf_epochs EXCEPT ![lf_subset] = Len(lf_acc)]
    /\ lf_built' = lf_built \cup {lf_subset}
    /\ lf_pc' = "idle"
    /\ UNCHANGED <<lf_buildings, lf_train_size, lf_valid_size, lf_shuffle,
                   lf_shuffled, lf_int_train, lf_int_valid, lf_subset, lf_b, lf_acc>>
    /\ UNCHANGED exceptFiles

\* The tables that give, for every list length from n to MaxFiles, the
\* order a shuffle leaves a list of that length in; only the lengths in
\* use matter, the others keep the sorted order.
RECURSIVE ShuffleTables(_, _)
ShuffleTables(n, used) ==
    IF n > MaxFiles THEN {<<>>}
    ELSE {<<o>> \o rest :
             o \in (IF n \in used THEN Orders(n) ELSE {[j \in 1..n |-> j]}),
             rest \in ShuffleTables(n + 1, used)}

\* The values int(len(files_of_building) * fraction) can take, building
\* by building.
RECURSIVE IntLists(_, _)
IntLists(tenths, counts) ==
    IF counts = <<>> THEN {<<>>}
    ELSE {<<v>> \o rest : v \in IntOfProduct(tenths, Head(counts)),
                          rest \in IntLists(tenths, Tail(counts))}

\* One configuration: the buildings listed (the same for the three
\* subsets), the fractions, the shuffle flag. What random.shuffle and
\* int() give depends on the list length and on the configuration only.
InitFiles ==
    /\ SweepIdle
    /\ EcsIdle
    /\ MtaIdle
    /\ DatasetIdleBut("_list_files")
    /\ lf_buildings \in UNION {[1..m -> 0..MaxFiles] : m \in 0..MaxListed}
    /\ lf_train_size \in TrainTenths
    /\ lf_valid_size \in ValidTenths
    /\ lf_shuffle \in BOOLEAN
    /\ lf_shuffled \in IF lf_shuffle THEN ShuffleTables(0, SeqToSet(lf_buildings))
                        ELSE ShuffleTables(0, {})
    /\ lf_int_train \in IntLists(lf_train_size, lf_buildings)
    /\ lf_int_valid \in IntLists(lf_valid_size, lf_buildings)
    /\ \A b, c \in 1..Len(lf_buildings) :
          lf_buildings[b] = lf_buildings[c] =>
              /\ lf_int_train[b] = lf_int_train[c]
              /\ lf_int_valid[b] = lf_int_valid[c]
    /\ lf_subset = "none"
    /\ lf_b = None
    /\ lf_acc = <<>>
    /\ lf_files = [s \in Subsets |-> <<>>]
    /\ lf_epochs = [s \in Subsets |-> 0]
    /\ lf_built = {}
    /\ lf_pc = "idle"

NextFiles ==
    \/ \E subset \in Subsets : LfEnter(subset)
    \/ LfBuilding
    \/ LfUpdate

SpecFiles == InitFiles /\ [][NextFiles]_vars

\* Every file of every listed building.
AllFiles == {<<b, k>> : b \in 1..Len(lf_buildings), k \in 1..MaxFiles} \cap
            UNION {SeqToSet(SortedFiles(b)) : b \in 1..Len(lf_buildings)}

\* C27: for one configuration (buildings, train_size, valid_size,
\* shuffle, random_seed) the file lists of the train, validation and test
\* objects are pairwise disjoint and together hold every file of every
\* listed building, once, with or without shuffling.
C27_SubsetsPartitionFiles ==
    lf_built = Subsets =>
        /\ \A s, t \in Subsets :
              s # t => SeqToSet(lf_files[s]) \cap SeqToSet(lf_files[t]) = {}
        /\ UNION {SeqToSet(lf_files[s]) : s \in Subsets} = AllFiles
        /\ lf_epochs["train"] + lf_epochs["validation"] + lf_epochs["test"]
              = Cardinality(AllFiles)

\* The three objects of a shuffled configuration of two buildings, each
\* subset with a file, the training files not the first of the sorted list.
C27_Witness ==
    /\ lf_built = Subsets
    /\ lf_shuffle
    /\ Len(lf_buildings) = 2
    /\ \A s \in Subsets : lf_files[s] # <<>>
    /\ <<1, 1>> \notin SeqToSet(lf_files["train"])

-----------------------------------------------------------------------------
(* _datastore_to_dataloader (better_nilm/ukdale/ukdale_data.py, lines      *)
(* 302-323), as datastores_to_dataloaders calls it (lines 356-369)         *)

\* The caller holds at most MaxDatasets per-building datasets.
MaxDatasets == 3

\* At most MaxAsked indices are asked for.
MaxAsked == 2

\* The batch sizes explored.
BatchSizes == {1, 2}

\* The list of per-building datasets _train_valid_test returns for n
\* buildings: one Power object per building.
BuildingDatasets(n) == [i \in 1..n |-> [building |-> i - 1]]

\* q[i] on a Python list is defined for -len(q) <= i < len(q).
IndexInRange(i, n) == -n <= i /\ i < n

\* q[i] on a Python list: a negative index counts from the end.
ListItem(q, i) == IF i < 0 THEN q[Len(q) + i + 1] ELSE q[i + 1]

\* Lines 317-318: buildings = to_list(buildings); ds = []. The name ds,
\* which held the caller's list, now holds an empty list.
DlEnter ==
    /\ dl_pc = "call"
    /\ dl_ds' = <<>>
    /\ dl_k' = 1
    /\ dl_pc' = "loop"
    /\ UNCHANGED <<dl_datasets, dl_buildings, dl_batch_size, dl_shuffle, dl_loader,
                   dl_err>>
    /\ UNCHANGED exceptLoader

\* Lines 319-320: ds += [ds[building]], an item of the local list.
DlAppend ==
    /\ dl_pc = "loop"
    /\ dl_k <= Len(dl_buildings)
    /\ IF IndexInRange(dl_buildings[dl_k], Len(dl_ds))
       THEN /\ dl_ds' = Append(dl_ds, ListItem(dl_ds, dl_buildings[dl_k]))
            /\ dl_k' = dl_k + 1
            /\ UNCHANGED <<dl_err, dl_pc>>
       ELSE /\ dl_err' = "IndexError"
            /\ dl_pc' = "raised"
            /\ UNCHANGED <<dl_ds, dl_k>>
    /\ UNCHANGED <<dl_datasets, dl_buildings, dl_batch_size, dl_shuffle, dl_loader>>
    /\ UNCHANGED exceptLoader

\* Lines 321-323: ConcatDataset(ds), which refuses an empty list, then the
\* DataLoader over it.
DlLoader ==
    /\ dl_pc = "loop"
    /\ dl_k > Len(dl_buildings)
    /\ IF dl_ds = <<>>
       THEN /\ dl_err' = "AssertionError"
            /\ dl_pc' = "raised"
            /\ UNCHANGED dl_loader
       ELSE /\ dl_loader' = dl_ds
            /\ dl_pc' = "returned"
            /\ UNCHANGED dl_err
    /\ UNCHANGED <<dl_datasets, dl_buildings, dl_batch_size, dl_shuffle, dl_ds, dl_k>>
    /\ UNCHANGED exceptLoader

\* The call: the datasets of the buildings, the indices asked for (a
\* list, as build_id_train, build_id_valid and build_id_test are), the
\* batch size and the shuffle flag.
InitLoader ==
    /\ SweepIdle
    /\ EcsIdle
    /\ MtaIdle
    /\ DatasetIdleBut("_datastore_to_dataloader")
    /\ \E n \in 0..MaxDatasets : dl_datasets = BuildingDatasets(n)
    /\ dl_buildings \in UNION {[1..m -> 0..(MaxDatasets - 1)] : m \in 0..MaxAsked}
    /\ dl_batch_size \in BatchSizes
    /\ dl_shuffle \in BOOLEAN
    /\ dl_ds = <<>>
    /\ dl_k = None
    /\ dl_loader = <<>>
    /\ dl_err = "none"
    /\ dl_pc = "call"

NextLoader ==
    \/ DlEnter
    \/ DlAppend
    \/ DlLoader

SpecLoader == InitLoader /\ [][NextLoader]_vars

\* The indices asked for are indices of the caller's list, and there is
\* one at least.
ValidRequest ==
    /\ dl_buildings # <<>>
    /\ \A k \in 1..Len(dl_buildings) : dl_buildings[k] \in 0..(Len(dl_datasets) - 1)

\* C28: for a non-empty list of valid indices the call returns, without
\* error, a loader over exactly the datasets of the caller's list at
\* those indices, in the order asked.
C28_LoaderOverAskedDatasets ==
    (dl_pc \in {"returned", "raised"} /\ ValidRequest) =>
        /\ dl_pc = "returned"
        /\ dl_err = "none"
        /\ dl_loader = [k \in 1..Len(dl_buildings) |-> dl_datasets[dl_buildings[k] + 1]]

====
